---------------------------- MODULE Spec2Model ----------------------------
(***************************************************************************)
(* Model of the schedule kernel of fieldvision-website:                    *)
(*   - the workday calendar (lib/schedule/workdays.ts: isWorkday,          *)
(*     calculateEndDate, nextWorkday, countWorkdays) and the Mon-Fri       *)
(*     addWorkdays of lib/pdf/regex-parser.ts;                             *)
(*   - recalculateTasks and the PATCH handler that runs it.                *)
(*                                                                         *)
(* A JavaScript Date at local midnight is the number of calendar days      *)
(* since 2026-01-01; a 'yyyy-MM-dd' string is the tuple <<y, m, d>>.       *)
(* A parameter of type `Date | string` is a record tagged with its kind.   *)
(***************************************************************************)
EXTENDS Integers, Sequences, FiniteSets, TLC

VARIABLES
    \* ---- calendar calls (SpecCal) ----
    cStart,      \* first date argument, a 'yyyy-MM-dd' string
    cOther,      \* second date argument, a 'yyyy-MM-dd' string
    cN,          \* the integer argument (workdays / days)
    cMode,       \* the WorkWeek argument
    cOp,         \* the function applied last ("none" before any call)
    cRes,        \* what the call returned
    \* ---- recalculation (Spec) ----
    tasks,       \* the caller's task array (request body of PATCH)
    projectStartDate,   \* project.start_date
    projectWorkDays,    \* project.work_days
    finalTasks,  \* the array recalculateTasks returned
    prevTasks,   \* the caller's array as it was when the call was made
    pc,          \* "ready" | "saved" | "recalculated" | "resaved" ("idle": no request)
    \* ---- schedule extraction from PDF text (SpecExtract) ----
    xLines,      \* the pieces of text the raw text is made of, by name
    xRaw,        \* the text handed to the parser
    xEnv,        \* the JavaScript engine and time zone the call ran in
    xOp,         \* the function applied last ("none" before any call)
    xText,       \* what normalizeExtractedText returned
    xResult,     \* what tryRegexExtract returned
    \* ---- text reconstruction of one page (SpecPage) ----
    pgItems,     \* the text items of the page, in the order they are emitted
    pgOp,        \* the strategy applied last ("none" before any call)
    pgText,      \* the text the strategy returned
    \* ---- text extraction of a document (SpecDoc) ----
    docPdf,      \* the pages of the document, by name
    docMaxChars, \* the maxChars argument
    docOp,       \* the function applied last ("none" before any call)
    docOut,      \* the two candidate texts and the text returned
    \* ---- PDF schedule import (SpecImport) ----
    imIn,        \* what the import meets: texts, engines, file size, the AI's answer
    imPc,        \* "idle" | "chosen" | "requested" | "gemini" | "responded" | "done"
    imReq,       \* the form data of the request to parse-import
    imGemini,    \* whether parseSchedulePDFWithGemini was called, and on which text
    imResp,      \* the response of parse-import
    imShown,     \* what the import dialog ends with: tasks or an error
    \* ---- the task editor (SpecEdit) ----
    edTasks,     \* state.tasks of useSchedule: [id, depends_on, sequence_index] each
    edOp,        \* the editor operation applied last ("none" before any)
    edCount,     \* the number of operations applied
    \* ---- autosave of the task list (SpecSave) ----
    stateTasks,          \* state.tasks of useSchedule, as a task list version
    stateStatus,         \* state.status: "idle" | "saving" | "error"
    pendingTasksRef,     \* pendingTasksRef.current: <<>> for null, else <<list>>
    autosaveTimeoutRef,  \* the armed debounce timer: <<>> for none, else <<delay>>
    requests,            \* PATCH requests sent and not yet handled
    responses,           \* PATCH responses on their way to the hook
    patched,             \* the bodies of all PATCH requests sent, in order
    dbTasks,             \* the task list the server stores
    lastEdit             \* the number of updateTasks calls made

calVars == <<cStart, cOther, cN, cMode, cOp, cRes>>
recVars == <<tasks, projectStartDate, projectWorkDays, finalTasks, prevTasks, pc>>
extVars == <<xLines, xRaw, xEnv, xOp, xText, xResult>>
pgVars == <<pgItems, pgOp, pgText>>
docVars == <<docPdf, docMaxChars, docOp, docOut>>
impVars == <<imIn, imPc, imReq, imGemini, imResp, imShown>>
edVars == <<edTasks, edOp, edCount>>
saveVars == <<stateTasks, stateStatus, pendingTasksRef, autosaveTimeoutRef,
              requests, responses, patched, dbTasks, lastEdit>>
vars == <<cStart, cOther, cN, cMode, cOp, cRes,
          tasks, projectStartDate, projectWorkDays, finalTasks, prevTasks, pc,
          xLines, xRaw, xEnv, xOp, xText, xResult,
          pgItems, pgOp, pgText, docPdf, docMaxChars, docOp, docOut,
          imIn, imPc, imReq, imGemini, imResp, imShown,
          edTasks, edOp, edCount,
          stateTasks, stateStatus, pendingTasksRef, autosaveTimeoutRef,
          requests, responses, patched, dbTasks, lastEdit>>

-----------------------------------------------------------------------------
(* Bounds of the model *)

\* number of consecutive calendar days the date arguments are drawn from
DateSpan == 10
\* largest integer argument (workdays, days) of a calendar call
MaxN == 7
\* largest number of tasks of a project
MaxTasks == 3
\* largest duration_days of a task (the smallest is 0)
MaxDur == 3
\* largest number of dependency references in a project
MaxEdges == 2
\* largest number of pieces a raw text is made of
MaxLines == 4
\* largest number of text items of a page
MaxItems == 3
\* largest number of pages of a document
MaxPages == 3

-----------------------------------------------------------------------------
(* Dates: the JavaScript Date / date-fns primitives the code calls *)

WorkWeeks == {"mon-fri", "mon-sat"}

IsLeap(y) == (y % 4 = 0 /\ y % 100 # 0) \/ y % 400 = 0

DaysInMonth(y, m) ==
    IF m = 2 THEN (IF IsLeap(y) THEN 29 ELSE 28)
    ELSE IF m \in {4, 6, 9, 11} THEN 30 ELSE 31

RECURSIVE DaysBeforeMonth(_, _)
DaysBeforeMonth(y, m) ==
    IF m = 1 THEN 0 ELSE DaysBeforeMonth(y, m - 1) + DaysInMonth(y, m - 1)

RECURSIVE DaysBeforeYear(_)
DaysBeforeYear(y) ==
    IF y = 2026 THEN 0
    ELSE DaysBeforeYear(y - 1) + (IF IsLeap(y - 1) THEN 366 ELSE 365)

\* parseISO('yyyy-MM-dd'): local midnight of that civil date
parseISO(s) == DaysBeforeYear(s[1]) + DaysBeforeMonth(s[1], s[2]) + (s[3] - 1)

\* format(date, 'yyyy-MM-dd'): the civil date of a Date
RECURSIVE FormatFrom(_, _, _)
FormatFrom(y, m, n) ==
    IF n < DaysInMonth(y, m) THEN <<y, m, n + 1>>
    ELSE IF m = 12 THEN FormatFrom(y + 1, 1, n - DaysInMonth(y, m))
    ELSE FormatFrom(y, m + 1, n - DaysInMonth(y, m))

format(date) == FormatFrom(2026, 1, date)

\* Date.prototype.getDay(): 0 = Sunday .. 6 = Saturday (2026-01-01 is a Thursday)
getDay(date) == (date + 4) % 7

\* date-fns addDays(date, amount)
addDays(date, amount) == date + amount

\* a `Date | string` argument
Str(s) == [kind |-> "string", iso |-> s]
DateObj(n) == [kind |-> "Date", t |-> n]
\* typeof x === 'string' ? parseISO(x) : x   (and new Date(x), which copies)
toDate(x) == IF x.kind = "string" THEN parseISO(x.iso) ELSE x.t

-----------------------------------------------------------------------------
(* lib/schedule/workdays.ts *)

\* mutant: the weekday numbered as on iOS (1 = Sunday .. 7 = Saturday)
isWorkday_OneBased(date, ww) ==
    LET day == getDay(date)
    IN  IF ww = "mon-sat" THEN day # 1
        ELSE day # 1 /\ day # 7

isWorkday(date, ww) ==
    LET day == getDay(date)
    IN  IF ww = "mon-sat" THEN day # 0
        ELSE day # 0 /\ day # 6

\* the while loop of calculateEndDate: `added` workdays counted so far
RECURSIVE calculateEndDateLoop(_, _, _, _)
calculateEndDateLoop(current, added, toAdd, ww) ==
    IF added < toAdd
    THEN LET next == addDays(current, 1)
         IN  calculateEndDateLoop(next,
                                  IF isWorkday(next, ww) THEN added + 1 ELSE added,
                                  toAdd, ww)
    ELSE current

\* mutant: the start day is not counted (toAdd = workdays)
calculateEndDate_StartNotCounted(start, workdays, ww) ==
    LET current == toDate(start)
    IN  IF workdays <= 1 THEN current
        ELSE calculateEndDateLoop(current, 0, workdays, ww)

\* mutant: the end is duration - 1 calendar days after the start
calculateEndDate_CalendarDays(start, workdays, ww) ==
    addDays(toDate(start), workdays - 1)

\* mutant: a start that is not a workday is returned as it is
calculateEndDate_WeekendStartReturned(start, workdays, ww) ==
    LET current == toDate(start)
    IN  IF workdays <= 1 \/ ~isWorkday(current, ww) THEN current
        ELSE calculateEndDateLoop(current, 0, workdays - 1, ww)

calculateEndDate(start, workdays, ww) ==
    LET current == toDate(start)
    IN  IF workdays <= 1 THEN current
        ELSE calculateEndDateLoop(current, 0, workdays - 1, ww)

\* the while loop of nextWorkday, with the number of day-steps taken
RECURSIVE nextWorkdayLoop(_, _, _)
nextWorkdayLoop(current, steps, ww) ==
    IF ~isWorkday(current, ww)
    THEN nextWorkdayLoop(addDays(current, 1), steps + 1, ww)
    ELSE [date |-> current, steps |-> steps]

\* mutant: the search starts on the day after the argument
nextWorkdayRun_StrictlyAfter(date, ww) ==
    nextWorkdayLoop(addDays(toDate(date), 1), 1, ww)

\* mutant: the argument is returned whatever day it is
nextWorkdayRun_Unchanged(date, ww) == [date |-> toDate(date), steps |-> 0]

\* nextWorkday with the loop's step count kept beside the returned date
nextWorkdayRun(date, ww) == nextWorkdayLoop(toDate(date), 0, ww)

nextWorkday(date, ww) == nextWorkdayRun(date, ww).date

\* the while loop of countWorkdays
RECURSIVE countWorkdaysLoop(_, _, _, _)
countWorkdaysLoop(current, endDate, count, ww) ==
    IF current < endDate
    THEN countWorkdaysLoop(addDays(current, 1), endDate,
                           IF isWorkday(current, ww) THEN count + 1 ELSE count, ww)
    ELSE count

\* mutant: the end day is counted too (current <= endDate)
countWorkdays_EndIncluded(start, end, ww) ==
    countWorkdaysLoop(toDate(start), addDays(toDate(end), 1), 0, ww)

countWorkdays(start, end, ww) ==
    countWorkdaysLoop(toDate(start), toDate(end), 0, ww)

-----------------------------------------------------------------------------
(* lib/pdf/regex-parser.ts: addWorkdays (always Mon-Fri) *)

RECURSIVE addWorkdaysLoop(_, _, _)
addWorkdaysLoop(result, added, days) ==
    IF added < days
    THEN LET next == result + 1
             dow == getDay(next)
         IN  addWorkdaysLoop(next,
                             IF dow # 0 /\ dow # 6 THEN added + 1 ELSE added,
                             days)
    ELSE result

addWorkdays(start, days) == addWorkdaysLoop(start, 0, days)

-----------------------------------------------------------------------------
(* lib/schedule/workdays.ts: recalculateTasks *)

\* a task without computed dates carries NoDate in start_date / end_date
NoDate == <<>>

\* Array.prototype.sort((a, b) => a.sequence_index - b.sequence_index): stable
RECURSIVE InsertBySeq(_, _)
InsertBySeq(t, sorted) ==
    IF sorted = <<>> THEN <<t>>
    ELSE IF Head(sorted).sequence_index <= t.sequence_index
         THEN <<Head(sorted)>> \o InsertBySeq(t, Tail(sorted))
         ELSE <<t>> \o sorted

RECURSIVE SortBySeq(_)
SortBySeq(ts) ==
    IF ts = <<>> THEN <<>>
    ELSE InsertBySeq(ts[Len(ts)], SortBySeq(SubSeq(ts, 1, Len(ts) - 1)))

\* the for loop over task.depends_on: the latest end among the dependencies
\* found in calculatedTasks, starting from the project start
RECURSIVE latestEndLoop(_, _, _, _)
latestEndLoop(depends_on, k, latestEnd, calculatedTasks) ==
    IF k > Len(depends_on) THEN latestEnd
    ELSE LET depId == depends_on[k]
         IN  IF depId \in DOMAIN calculatedTasks
                  /\ calculatedTasks[depId].end_date > latestEnd
             THEN latestEndLoop(depends_on, k + 1,
                                calculatedTasks[depId].end_date, calculatedTasks)
             ELSE latestEndLoop(depends_on, k + 1, latestEnd, calculatedTasks)

\* mutant: a dependent task starts on the day its latest dependency ends
taskStartOf_NoDayAfter(task, calculatedTasks, start, ww) ==
    IF Len(task.depends_on) > 0
    THEN nextWorkday(DateObj(latestEndLoop(task.depends_on, 1, start,
                                           calculatedTasks)), ww)
    ELSE nextWorkday(DateObj(start), ww)

\* mutant: a task without dependencies keeps a stored start_date
taskStartOf_KeepsStored(task, calculatedTasks, start, ww) ==
    IF Len(task.depends_on) > 0
    THEN nextWorkday(DateObj(addDays(latestEndLoop(task.depends_on, 1, start,
                                                   calculatedTasks), 1)), ww)
    ELSE IF task.start_date # NoDate
         THEN nextWorkday(Str(task.start_date), ww)
         ELSE nextWorkday(DateObj(start), ww)

\* taskStart of one task, given the tasks calculated before it
\* mutant: every task starts at the project start, whatever it depends on
taskStartOf_ProjectStart(task, calculatedTasks, start, ww) ==
    nextWorkday(DateObj(start), ww)

taskStartOf(task, calculatedTasks, start, ww) ==
    IF Len(task.depends_on) > 0
    THEN nextWorkday(DateObj(addDays(latestEndLoop(task.depends_on, 1, start,
                                                   calculatedTasks), 1)), ww)
    ELSE nextWorkday(DateObj(start), ww)

\* sortedTasks.map(...): the tasks from index i on, with the map of the
\* dates calculated so far
RECURSIVE mapLoop(_, _, _, _, _)
mapLoop(sortedTasks, i, calculatedTasks, start, ww) ==
    IF i > Len(sortedTasks) THEN <<>>
    ELSE LET task == sortedTasks[i]
             taskStart == taskStartOf(task, calculatedTasks, start, ww)
             taskEnd == calculateEndDate(DateObj(taskStart), task.duration_days, ww)
             calculated == (task.id :> [start_date |-> taskStart,
                                        end_date |-> taskEnd]) @@ calculatedTasks
         IN  <<[task EXCEPT !.start_date = format(taskStart),
                            !.end_date = format(taskEnd)]>>
             \o mapLoop(sortedTasks, i + 1, calculated, start, ww)

\* mutant: the caller's array is sorted in place (tasks.sort without the copy)
recalculateTasksEffect_SortInPlace(ts, startDate, ww) ==
    [input |-> SortBySeq(ts),
     returned |-> mapLoop(SortBySeq(ts), 1, <<>>, toDate(startDate), ww)]

\* one call of recalculateTasks: the caller's array after the call, and the
\* array returned
recalculateTasksEffect(ts, startDate, ww) ==
    LET start == toDate(startDate)
        sortedTasks == SortBySeq(ts)
    IN  [input |-> ts,
         returned |-> mapLoop(sortedTasks, 1, <<>>, start, ww)]

recalculateTasks(ts, startDate, ww) ==
    recalculateTasksEffect(ts, startDate, ww).returned

-----------------------------------------------------------------------------
(* Text: a JavaScript string is the sequence of its characters, each a     *)
(* one-character string; the empty string "" stands for "past the end".    *)

Digits == {"0", "1", "2", "3", "4", "5", "6", "7", "8", "9"}

UpperLetters ==
    <<"A", "B", "C", "D", "E", "F", "G", "H", "I", "J", "K", "L", "M",
      "N", "O", "P", "Q", "R", "S", "T", "U", "V", "W", "X", "Y", "Z">>

LowerLetters ==
    <<"a", "b", "c", "d", "e", "f", "g", "h", "i", "j", "k", "l", "m",
      "n", "o", "p", "q", "r", "s", "t", "u", "v", "w", "x", "y", "z">>

LowerOf ==
    [c \in {UpperLetters[i] : i \in 1..26} |->
        LowerLetters[CHOOSE i \in 1..26 : UpperLetters[i] = c]]

\* one character of String.prototype.toLowerCase / of a match under /i
toLowerCase(c) == IF c \in DOMAIN LowerOf THEN LowerOf[c] ELSE c

LowerCaseOf(t) == [i \in 1..Len(t) |-> toLowerCase(t[i])]

\* \w
WordChars ==
    Digits \cup {UpperLetters[i] : i \in 1..26}
           \cup {LowerLetters[i] : i \in 1..26} \cup {"_"}

\* \s (the characters of it that a text of the model can hold)
WhiteSpace == {" ", "\t", "\n", "\r", "\f"}

\* [\x00-\x08\x0B\x0C\x0E-\x1F\x7F] (the characters of it that a text of the
\* model can hold: \x0C is the form feed)
ControlChars == {"\f"}

At(t, i) == IF i \in 1..Len(t) THEN t[i] ELSE ""

\* first index >= i of t whose character is not in the set (past the end if none)
SkipWhile(t, i, set) ==
    IF \E j \in i..Len(t) : t[j] \notin set
    THEN CHOOSE j \in i..Len(t) :
             t[j] \notin set /\ \A k \in i..(j - 1) : t[k] \in set
    ELSE IF i > Len(t) THEN i ELSE Len(t) + 1

\* pieces[lo] \o ... \o pieces[hi]
RECURSIVE Concat(_, _, _)
Concat(pieces, lo, hi) ==
    IF lo > hi THEN <<>>
    ELSE IF lo = hi THEN pieces[lo]
    ELSE LET mid == (lo + hi) \div 2
         IN  Concat(pieces, lo, mid) \o Concat(pieces, mid + 1, hi)

Flatten(pieces) == Concat(pieces, 1, Len(pieces))

\* does t hold the lower-case word w at index i, whatever the letter case
HasWordAt(t, i, w) ==
    /\ i + Len(w) - 1 <= Len(t)
    /\ \A k \in 1..Len(w) : toLowerCase(t[i + k - 1]) = w[k]

-----------------------------------------------------------------------------
(* lib/pdf/regex-parser.ts: normalizeExtractedText                         *)
(* String.prototype.replace with a /g pattern rewrites the matches from    *)
(* left to right without overlap; each step below gives, for every index   *)
(* of its input, what the replace leaves in that character's place.        *)

\* .replace(/[\x00-\x08\x0B\x0C\x0E-\x1F\x7F]/g, '')
StripControlChars(t) == SelectSeq(t, LAMBDA c : c \notin ControlChars)

\* the characters a replace leaves, "" marking a character it removes
Remaining(marked) == SelectSeq(marked, LAMBDA c : c # "")

\* .replace(/\r\n?/g, '\n'): a \n right after a \r belongs to the \r's match
NormalizeLineEndings(t) ==
    Remaining([i \in 1..Len(t) |->
                  IF t[i] = "\r" THEN "\n"
                  ELSE IF t[i] = "\n" /\ At(t, i - 1) = "\r" THEN ""
                  ELSE t[i]])

\* .replace(/\f/g, '\n')
FormFeedsToNewlines(t) == [i \in 1..Len(t) |-> IF t[i] = "\f" THEN "\n" ELSE t[i]]

\* .replace(/[ \t]+/g, ' '): a run becomes one space, written where it starts
CollapseHorizontal(t) ==
    Remaining([i \in 1..Len(t) |->
                  IF t[i] \notin {" ", "\t"} THEN t[i]
                  ELSE IF At(t, i - 1) \in {" ", "\t"} THEN ""
                  ELSE " "])

\* .replace(/ ?\n ?/g, '\n'): a space next to a \n is part of that \n's match
TrimAroundNewlines(t) ==
    Remaining([i \in 1..Len(t) |->
                  IF t[i] = " " /\ (At(t, i + 1) = "\n" \/ At(t, i - 1) = "\n")
                  THEN "" ELSE t[i]])

\* .replace(/\n{3,}/g, '\n\n'): of a run of three or more, two are left
CollapseBlankLines(t) ==
    Remaining([i \in 1..Len(t) |->
                  IF t[i] = "\n" /\ At(t, i - 1) = "\n" /\ At(t, i - 2) = "\n"
                  THEN "" ELSE t[i]])

SplitDaysEnd_NoMatch(t, i) == 0

\* end (exclusive) of a match of /\ndays?\b/i at index i, 0 if there is none
SplitDaysEnd(t, i) ==
    IF At(t, i) = "\n" /\ HasWordAt(t, i + 1, <<"d", "a", "y">>)
    THEN IF toLowerCase(At(t, i + 4)) = "s" /\ At(t, i + 5) \notin WordChars
         THEN i + 5
         ELSE IF At(t, i + 4) \notin WordChars THEN i + 4 ELSE 0
    ELSE 0

\* the \n of a match of /(\d+)\ndays?\b/i
IsSplitBreak(t, i) ==
    At(t, i) = "\n" /\ At(t, i - 1) \in Digits /\ SplitDaysEnd(t, i) # 0

\* .replace(/(\d+)\ndays?\b/gi, '$1 days'): the digits stay, ' days' is
\* written at the \n, the letters of the match are dropped
RejoinSplitDays(t) ==
    Flatten([i \in 1..Len(t) |->
                IF IsSplitBreak(t, i) THEN <<" ", "d", "a", "y", "s">>
                ELSE IF \E j \in (i - 4)..(i - 1) :
                            IsSplitBreak(t, j) /\ i < SplitDaysEnd(t, j)
                     THEN <<>>
                     ELSE <<t[i]>>])

normalizeExtractedText(text) ==
    RejoinSplitDays(
        CollapseBlankLines(
            TrimAroundNewlines(
                CollapseHorizontal(
                    FormFeedsToNewlines(
                        NormalizeLineEndings(
                            StripControlChars(text)))))))

-----------------------------------------------------------------------------
(* lib/pdf/regex-parser.ts: tryRegexExtract *)

\* the alternation (?:Jan|Feb|...|Dec) of the patterns, in the case MONTHS spells
MonthNames ==
    << <<"J", "a", "n">>, <<"F", "e", "b">>, <<"M", "a", "r">>, <<"A", "p", "r">>,
       <<"M", "a", "y">>, <<"J", "u", "n">>, <<"J", "u", "l">>, <<"A", "u", "g">>,
       <<"S", "e", "p">>, <<"O", "c", "t">>, <<"N", "o", "v">>, <<"D", "e", "c">> >>

\* const MONTHS: the month number of a key, 0 for `undefined`
MONTHS(key) ==
    IF \E m \in 1..12 : MonthNames[m] = key
    THEN CHOOSE m \in 1..12 : MonthNames[m] = key
    ELSE 0

\* (?:Jan|...|Dec) under /i at index i
MonthAt(t, i) ==
    /\ i + 2 <= Len(t)
    /\ \E m \in 1..12 : LowerCaseOf(MonthNames[m]) = LowerCaseOf(SubSeq(t, i, i + 2))

\* String.prototype.indexOf(c, i), past the end if c does not occur
indexOf(t, c, i) ==
    IF \E j \in i..Len(t) : t[j] = c
    THEN CHOOSE j \in i..Len(t) : t[j] = c /\ \A k \in i..(j - 1) : t[k] # c
    ELSE Len(t) + 1

\* text.split('\n'), from index i on
RECURSIVE SplitFrom(_, _)
SplitFrom(t, i) ==
    LET j == indexOf(t, "\n", i)
    IN  IF j > Len(t) THEN <<SubSeq(t, i, Len(t))>>
        ELSE <<SubSeq(t, i, j - 1)>> \o SplitFrom(t, j + 1)

split(t) == SplitFrom(t, 1)

\* parseInt(digits, 10)
RECURSIVE parseIntLoop(_, _, _)
parseIntLoop(ds, i, acc) ==
    IF i > Len(ds) THEN acc
    ELSE parseIntLoop(ds, i + 1,
             acc * 10 + (CHOOSE v \in 0..9 : ToString(v) = ds[i]))

parseInt(ds) == parseIntLoop(ds, 1, 0)

\* backtracking: the first attempt if it matches, else the next one
OrElse(m, next) == IF m.ok THEN m ELSE next

NoMatch == [ok |-> FALSE, nameEnd |-> 0, dateStart |-> 0, dateEnd |-> 0,
            durStart |-> 0, durEnd |-> 0]

\* ,?\s+\d{4})\s+(\d+)\s+days?(?:\s.*)?$ under /i at index k.  Each greedy
\* part takes its whole run: what follows it cannot start inside the run.
TailMatch(line, k) ==
    LET afterComma == IF At(line, k) = "," THEN k + 1 ELSE k
        year == SkipWhile(line, afterComma, WhiteSpace)
        afterYear == year + 4
        dur == SkipWhile(line, afterYear, WhiteSpace)
        afterDur == SkipWhile(line, dur, Digits)
        word == SkipWhile(line, afterDur, WhiteSpace)
        afterDay == word + 3
        rest == IF toLowerCase(At(line, afterDay)) = "s"
                   /\ (afterDay + 1 > Len(line) \/ At(line, afterDay + 1) \in WhiteSpace)
                THEN afterDay + 1 ELSE afterDay
    IN  IF /\ year > afterComma
           /\ \A j \in year..(year + 3) : At(line, j) \in Digits
           /\ dur > afterYear
           /\ afterDur > dur
           /\ word > afterDur
           /\ HasWordAt(line, word, <<"d", "a", "y">>)
           /\ (rest > Len(line) \/ At(line, rest) \in WhiteSpace)
        THEN [ok |-> TRUE, nameEnd |-> 0, dateStart |-> 0, dateEnd |-> year + 3,
              durStart |-> dur, durEnd |-> afterDur - 1]
        ELSE NoMatch

\* [\d ]* is greedy: the longest extent (ending before index e) after which
\* the rest of the pattern matches, tried from the longest down to the empty one
RECURSIVE DayExtent(_, _, _)
DayExtent(line, from, e) ==
    IF e < from THEN NoMatch
    ELSE OrElse(TailMatch(line, e), DayExtent(line, from, e - 1))

\* the pattern after ^(.+?) with the name ending at nameEnd
HeadMatch(line, nameEnd) ==
    LET month == SkipWhile(line, nameEnd + 1, WhiteSpace)
        afterMonth == SkipWhile(line, month + 3, WordChars)
        day == SkipWhile(line, afterMonth, WhiteSpace)
    IN  IF /\ month > nameEnd + 1
           /\ MonthAt(line, month)
           /\ day > afterMonth
           /\ At(line, day) \in Digits
        THEN LET m == DayExtent(line, day + 1,
                                SkipWhile(line, day + 1, Digits \cup {" "}))
             IN  IF m.ok THEN [m EXCEPT !.nameEnd = nameEnd, !.dateStart = month]
                 ELSE NoMatch
        ELSE NoMatch

\* (.+?) is lazy: the shortest name after which the rest of the pattern matches
RECURSIVE linePatternFrom(_, _)
linePatternFrom(line, nameEnd) ==
    IF nameEnd > Len(line) THEN NoMatch
    ELSE OrElse(HeadMatch(line, nameEnd), linePatternFrom(line, nameEnd + 1))

\* linePattern.exec(line)
linePattern(line) == linePatternFrom(line, 1)

\* String.prototype.trim
RECURSIVE trimEnd(_)
trimEnd(t) ==
    IF t # <<>> /\ t[Len(t)] \in WhiteSpace THEN trimEnd(SubSeq(t, 1, Len(t) - 1)) ELSE t

trim(t) == trimEnd(SubSeq(t, SkipWhile(t, 1, WhiteSpace), Len(t)))

\* .replace(/\s+/g, ' ')
RECURSIVE CollapseWhiteSpace(_, _, _)
CollapseWhiteSpace(t, i, out) ==
    IF i > Len(t) THEN out
    ELSE IF t[i] \in WhiteSpace
         THEN CollapseWhiteSpace(t, SkipWhile(t, i, WhiteSpace), Append(out, " "))
         ELSE CollapseWhiteSpace(t, i + 1, Append(out, t[i]))

\* match[2].replace(',', ''): the first comma only
RemoveFirstComma(t) ==
    IF \E i \in 1..Len(t) : t[i] = ","
    THEN LET i == CHOOSE k \in 1..Len(t) : t[k] = "," /\ \A j \in 1..(k - 1) : t[j] # ","
         IN  SubSeq(t, 1, i - 1) \o SubSeq(t, i + 1, Len(t))
    ELSE t

\* dateStr.replace(/(\d)\s+(\d)/g, '$1$2'): matches do not overlap, the scan
\* resumes after the second digit of a match
RECURSIVE CollapseSplitDigits(_, _, _)
CollapseSplitDigits(t, i, out) ==
    IF i > Len(t) THEN out
    ELSE LET j == SkipWhile(t, i + 1, WhiteSpace)
         IN  IF t[i] \in Digits /\ j > i + 1 /\ At(t, j) \in Digits
             THEN CollapseSplitDigits(t, j + 1, out \o <<t[i], t[j]>>)
             ELSE CollapseSplitDigits(t, i + 1, Append(out, t[i]))

NoParts == [ok |-> FALSE, month |-> <<>>, day |-> <<>>, year |-> <<>>]

\* /(Jan|...|Dec)\w*\s+(\d{1,2})\s+(\d{4})/i at index i
DatePartsAt(t, i) ==
    LET afterMonth == SkipWhile(t, i + 3, WordChars)
        day == SkipWhile(t, afterMonth, WhiteSpace)
        afterDay == SkipWhile(t, day, Digits)
        year == SkipWhile(t, afterDay, WhiteSpace)
    IN  IF /\ MonthAt(t, i)
           /\ day > afterMonth
           /\ afterDay - day \in {1, 2}
           /\ year > afterDay
           /\ \A j \in year..(year + 3) : At(t, j) \in Digits
        THEN [ok |-> TRUE, month |-> SubSeq(t, i, i + 2),
              day |-> SubSeq(t, day, afterDay - 1), year |-> SubSeq(t, year, year + 3)]
        ELSE NoParts

\* cleanDate.match(...): the leftmost match
RECURSIVE DatePartsFrom(_, _)
DatePartsFrom(t, i) ==
    IF i > Len(t) THEN NoParts
    ELSE OrElse(DatePartsAt(t, i), DatePartsFrom(t, i + 1))

dateParts(cleanDate) == DatePartsFrom(cleanDate, 1)

\* the value of an invalid Date (getTime() is NaN)
InvalidDate == -100000

\* new Date(`${yyyy}-${mm}-${dd}`): the date-only ISO form is UTC midnight of
\* that day.  A day of 1..31 beyond the month's length is implementation
\* dependent: V8 (Node, Chrome) rolls it over into the next month
\* (lenient), other engines give an invalid Date.  The result is the local
\* calendar day of that instant: west of UTC it is the day before.  Years
\* from 2026 on.
NewDate(y, m, d, env) ==
    IF d < 1 \/ d > 31 \/ (d > DaysInMonth(y, m) /\ ~env.lenient)
    THEN InvalidDate
    ELSE DaysBeforeYear(y) + DaysBeforeMonth(y, m) + (d - 1)
         - (IF env.west THEN 1 ELSE 0)

\* formatDate: local year, month and day as 'yyyy-MM-dd'
formatDate(d) == format(d)

HeaderNames ==
    {<<"t", "i", "t", "l", "e">>, <<"s", "t", "a", "r", "t">>,
     <<"w", "o", "r", "k", "d", "a", "y", "s">>}

\* /^title$/i.test(rawName) || /^start$/i.test(rawName) || /^workdays$/i.test(rawName)
isNonTaskRow_Never(rawName) == FALSE

isNonTaskRow(rawName) == LowerCaseOf(rawName) \in HeaderNames

\* seen.has(key)
seenHas_Never(seen, key) == FALSE

seenHas(seen, key) == key \in seen

Max(a, b) == IF a >= b THEN a ELSE b

\* one iteration of the for loop: st = [tasks, seen].  Each constant of the
\* loop body is a parameter of the step that follows its declaration.
lineStep(st, line, env) ==
    LET Seen(key) == [st EXCEPT !.seen = st.seen \cup {key}]
        Push(key, rawName, durationDays, startDate) ==
            IF startDate = InvalidDate THEN Seen(key)
            ELSE [Seen(key) EXCEPT !.tasks =
                     Append(st.tasks,
                            [name |-> rawName,
                             trade |-> "General",
                             duration_days |-> Max(1, durationDays),
                             start_date |-> formatDate(startDate),
                             end_date |-> formatDate(
                                 addWorkdays(startDate, Max(1, durationDays)))])]
        WithMonth(key, rawName, durationDays, parts, monthNum) ==
            IF monthNum = 0 THEN Seen(key)
            ELSE Push(key, rawName, durationDays,
                      NewDate(parseInt(parts.year), monthNum, parseInt(parts.day), env))
        WithParts(key, rawName, durationDays, parts) ==
            IF ~parts.ok THEN Seen(key)
            ELSE WithMonth(key, rawName, durationDays, parts, MONTHS(parts.month))
        WithKey(rawName, dateStr, durationDays, key) ==
            IF seenHas(st.seen, key) THEN st
            ELSE IF isNonTaskRow(rawName) THEN Seen(key)
            ELSE WithParts(key, rawName, durationDays,
                           dateParts(CollapseSplitDigits(dateStr, 1, <<>>)))
        WithGroups(rawName, dateStr, durationDays) ==
            WithKey(rawName, dateStr, durationDays, rawName \o <<"|">> \o dateStr)
        WithMatch(match) ==
            IF ~match.ok THEN st
            ELSE WithGroups(
                     CollapseWhiteSpace(trim(SubSeq(line, 1, match.nameEnd)), 1, <<>>),
                     RemoveFirstComma(SubSeq(line, match.dateStart, match.dateEnd)),
                     parseInt(SubSeq(line, match.durStart, match.durEnd)))
    IN  WithMatch(linePattern(line))

RECURSIVE forLines(_, _, _, _)
forLines(lines, i, st, env) ==
    IF i > Len(lines) THEN st
    ELSE forLines(lines, i + 1, lineStep(st, lines[i], env), env)

\* the tasks array when the loop is over
extractedTasks(rawText, env) ==
    forLines(split(normalizeExtractedText(rawText)), 1,
             [tasks |-> <<>>, seen |-> {}], env).tasks

\* `null`, and a returned array
Null == [null |-> TRUE, tasks |-> <<>>]
Array(ts) == [null |-> FALSE, tasks |-> ts]

confidenceGate_AnyTask(ts) == IF Len(ts) >= 1 THEN Array(ts) ELSE Null

\* tasks.length >= 3 ? tasks : null
confidenceGate(ts) == IF Len(ts) >= 3 THEN Array(ts) ELSE Null

tryRegexExtract(rawText, env) == confidenceGate(extractedTasks(rawText, env))

-----------------------------------------------------------------------------
(* lib/pdf/worker-setup.ts: a page is the sequence of its text items in     *)
(* the order pdfjs-dist emits them; an item is [str, x, y, hasEOL] with     *)
(* x = transform[4] and y = transform[5].                                   *)

\* parts.join(sep)
join(parts, sep) ==
    Flatten([k \in 1..Len(parts) |-> IF k = 1 THEN parts[k] ELSE sep \o parts[k]])

\* !item.str.trim()
isBlank(str) == trim(str) = <<>>

\* items.sort((a, b) => b.y - a.y): stable, highest y first
RECURSIVE InsertByY(_, _)
InsertByY(item, sorted) ==
    IF sorted = <<>> THEN <<item>>
    ELSE IF Head(sorted).y >= item.y
         THEN <<Head(sorted)>> \o InsertByY(item, Tail(sorted))
         ELSE <<item>> \o sorted

RECURSIVE SortByY(_)
SortByY(its) ==
    IF its = <<>> THEN <<>>
    ELSE InsertByY(its[Len(its)], SortByY(SubSeq(its, 1, Len(its) - 1)))

\* row.sort((a, b) => a.x - b.x): stable, lowest x first
RECURSIVE InsertByX(_, _)
InsertByX(item, sorted) ==
    IF sorted = <<>> THEN <<item>>
    ELSE IF Head(sorted).x <= item.x
         THEN <<Head(sorted)>> \o InsertByX(item, Tail(sorted))
         ELSE <<item>> \o sorted

RECURSIVE SortByX(_)
SortByX(its) ==
    IF its = <<>> THEN <<>>
    ELSE InsertByX(its[Len(its)], SortByX(SubSeq(its, 1, Len(its) - 1)))

Abs(n) == IF n < 0 THEN -n ELSE n

\* const TOLERANCE = 3
TOLERANCE == 3

joinsRow_Below(y, currentY) == Abs(y - currentY) < TOLERANCE

\* Math.abs(item.y - currentY) <= TOLERANCE: currentY is the y of the row's
\* first item
joinsRow(y, currentY) == Abs(y - currentY) <= TOLERANCE

\* the clustering loop over the sorted items, from index i on
RECURSIVE clusterRows(_, _, _, _, _)
clusterRows(textItems, i, rows, currentRow, currentY) ==
    IF i > Len(textItems) THEN Append(rows, currentRow)
    ELSE LET item == textItems[i]
         IN  IF joinsRow(item.y, currentY)
             THEN clusterRows(textItems, i + 1, rows,
                              Append(currentRow, [x |-> item.x, text |-> item.text]),
                              currentY)
             ELSE clusterRows(textItems, i + 1, Append(rows, currentRow),
                              <<[x |-> item.x, text |-> item.text]>>, item.y)

sortRow_EmissionOrder(row) == row

\* row.sort((a, b) => a.x - b.x)
sortRow(row) == SortByX(row)

\* the rows of extractYClustered, each sorted by x
rowsOf(items) ==
    LET kept == SelectSeq(items, LAMBDA item : ~isBlank(item.str))
        textItems == SortByY([k \in 1..Len(kept) |->
                         [x |-> kept[k].x, y |-> kept[k].y, text |-> kept[k].str]])
    IN  IF textItems = <<>> THEN <<>>
        ELSE LET rows == clusterRows(textItems, 2, <<>>,
                             <<[x |-> textItems[1].x, text |-> textItems[1].text]>>,
                             textItems[1].y)
             IN  [r \in 1..Len(rows) |-> sortRow(rows[r])]

extractYClustered(items) ==
    LET rows == rowsOf(items)
        lines == [r \in 1..Len(rows) |->
                     trim(join([k \in 1..Len(rows[r]) |-> rows[r][k].text], <<" ">>))]
    IN  join(SelectSeq(lines, LAMBDA line : line # <<>>), <<"\n">>)

lineGap_Tolerance(y, lastY) == Abs(y - lastY) > TOLERANCE

\* Math.abs(y - lastY) > 5: lastY is the y of the item before, blank or not
lineGap(y, lastY) == Abs(y - lastY) > 5

\* the loop of extractSequential over the items, from index i on
RECURSIVE sequentialParts(_, _, _, _)
sequentialParts(items, i, parts, lastY) ==
    IF i > Len(items) THEN parts
    ELSE LET item == items[i]
             gap == IF lastY # <<>> /\ lineGap(item.y, lastY[1])
                    THEN << <<"\n">> >> ELSE <<>>
             text == IF ~isBlank(item.str) THEN <<item.str>> ELSE <<>>
             eol == IF item.hasEOL THEN << <<"\n">> >> ELSE <<>>
         IN  sequentialParts(items, i + 1, parts \o gap \o text \o eol, <<item.y>>)

\* last index <= i of t whose character is not in the set (0 if none)
SkipBackWhile(t, i, set) ==
    IF \E j \in 1..i : t[j] \notin set
    THEN CHOOSE j \in 1..i : t[j] \notin set /\ \A k \in (j + 1)..i : t[k] \in set
    ELSE 0

\* .replace(/ *\n */g, '\n'): the spaces of a run that touches a \n go
TrimSpacesAroundNewlines(t) ==
    Remaining([i \in 1..Len(t) |->
                  IF t[i] = " " /\ (\/ At(t, SkipWhile(t, i, {" "})) = "\n"
                                    \/ At(t, SkipBackWhile(t, i, {" "})) = "\n")
                  THEN "" ELSE t[i]])

\* .replace(/ +/g, ' ')
CollapseSpaces(t) ==
    Remaining([i \in 1..Len(t) |->
                  IF t[i] = " " /\ At(t, i - 1) = " " THEN "" ELSE t[i]])

extractSequential(items) ==
    trim(CollapseBlankLines(
             CollapseSpaces(
                 TrimSpacesAroundNewlines(
                     join(sequentialParts(items, 1, <<>>, <<>>), <<" ">>)))))

\* ,?\s+\d{4}\s+\d+\s+days? of taskPattern under /i at index k
taskPatternTail(line, k) ==
    LET afterComma == IF At(line, k) = "," THEN k + 1 ELSE k
        year == SkipWhile(line, afterComma, WhiteSpace)
        afterYear == year + 4
        dur == SkipWhile(line, afterYear, WhiteSpace)
        afterDur == SkipWhile(line, dur, Digits)
        word == SkipWhile(line, afterDur, WhiteSpace)
    IN  /\ year > afterComma
        /\ \A j \in year..(year + 3) : At(line, j) \in Digits
        /\ dur > afterYear
        /\ afterDur > dur
        /\ word > afterDur
        /\ HasWordAt(line, word, <<"d", "a", "y">>)

\* taskPattern at index p: each greedy part takes its whole run, except
\* [\d ]*, of which every extent is tried
taskPatternAt(line, p) ==
    LET afterMonth == SkipWhile(line, p + 3, WordChars)
        day == SkipWhile(line, afterMonth, WhiteSpace)
    IN  /\ MonthAt(line, p)
        /\ day > afterMonth
        /\ At(line, day) \in Digits
        /\ \E e \in (day + 1)..SkipWhile(line, day + 1, Digits \cup {" "}) :
              taskPatternTail(line, e)

\* taskPattern.test(line): the pattern is not anchored
taskPattern(line) == \E p \in 1..Len(line) : taskPatternAt(line, p)

\* text.split('\n').filter(l => taskPattern.test(l)).length
taskLineCount(text) ==
    LET lines == split(text)
    IN  Cardinality({i \in 1..Len(lines) : taskPattern(lines[i])})

\* the loop over the pages, from page i on:
\* st = [clusteredPages, sequentialPages, clusteredChars, sequentialChars]
RECURSIVE pageLoop(_, _, _, _)
pageLoop(pdf, i, st, maxChars) ==
    IF i > Len(pdf) THEN st
    ELSE LET clusteredText == extractYClustered(pdf[i])
             sequentialText == extractSequential(pdf[i])
             clusteredChars == st.clusteredChars + Len(clusteredText)
             sequentialChars == st.sequentialChars + Len(sequentialText)
             next == [clusteredPages |->
                          IF clusteredChars <= maxChars
                          THEN Append(st.clusteredPages, clusteredText)
                          ELSE st.clusteredPages,
                      sequentialPages |->
                          IF sequentialChars <= maxChars
                          THEN Append(st.sequentialPages, sequentialText)
                          ELSE st.sequentialPages,
                      clusteredChars |-> clusteredChars,
                      sequentialChars |-> sequentialChars]
         IN  IF clusteredChars > maxChars /\ sequentialChars > maxChars
             THEN next
             ELSE pageLoop(pdf, i + 1, next, maxChars)

selectResult_Clustered(clusteredResult, sequentialResult) == clusteredResult

\* the returns of extractTextFromPdfDocument
selectResult(clusteredResult, sequentialResult) ==
    LET clusteredMatches == taskLineCount(clusteredResult)
        sequentialMatches == taskLineCount(sequentialResult)
    IN  IF sequentialMatches > clusteredMatches THEN sequentialResult
        ELSE IF clusteredMatches = 0 /\ sequentialMatches = 0
             THEN IF Len(sequentialResult) > Len(clusteredResult)
                  THEN sequentialResult ELSE clusteredResult
             ELSE clusteredResult

\* extractTextFromPdfDocument with the two candidate texts it chose between
extractTextFromPdfDocument(pdf, maxChars) ==
    LET st == pageLoop(pdf, 1, [clusteredPages |-> <<>>, sequentialPages |-> <<>>,
                                clusteredChars |-> 0, sequentialChars |-> 0], maxChars)
        clusteredResult == join(st.clusteredPages, <<"\n", "\n">>)
        sequentialResult == join(st.sequentialPages, <<"\n", "\n">>)
    IN  [clustered |-> clusteredResult,
         sequential |-> sequentialResult,
         result |-> selectResult(clusteredResult, sequentialResult)]

-----------------------------------------------------------------------------
(* The texts handed to the parser: up to MaxLines pieces joined by line     *)
(* breaks, each piece one of the lines below.                              *)

Pieces ==
    \* the example line of the parser's documentation: 'Framing Jan 5, 2026 10 days'
    [framing |->
       <<"F", "r", "a", "m", "i", "n", "g", " ", "J", "a", "n", " ", "5",
         ",", " ", "2", "0", "2", "6", " ", "1", "0", " ", "d", "a", "y",
         "s">>,
    \* a day whose digits the PDF split: 'Tile Jan 1 2, 2026 2 days'
     tile |->
       <<"T", "i", "l", "e", " ", "J", "a", "n", " ", "1", " ", "2", ",",
         " ", "2", "0", "2", "6", " ", "2", " ", "d", "a", "y", "s">>,
    \* the same name and date text once more, another duration: 'Tile Jan 1 2, 2026 5 days'
     tileAgain |->
       <<"T", "i", "l", "e", " ", "J", "a", "n", " ", "1", " ", "2", ",",
         " ", "2", "0", "2", "6", " ", "5", " ", "d", "a", "y", "s">>,
    \* `tile` with the month in upper case: 'Tile JAN 1 2, 2026 2 days'
     tileUpper |->
       <<"T", "i", "l", "e", " ", "J", "A", "N", " ", "1", " ", "2", ",",
         " ", "2", "0", "2", "6", " ", "2", " ", "d", "a", "y", "s">>,
    \* no comma, singular `day`: 'Deck Jan 1 3 2026 1 day'
     deck |->
       <<"D", "e", "c", "k", " ", "J", "a", "n", " ", "1", " ", "3", " ",
         "2", "0", "2", "6", " ", "1", " ", "d", "a", "y">>,
    \* `deck` with a line break before `day`: 'Deck Jan 1 3 2026 1\nday'
     deckSplit |->
       <<"D", "e", "c", "k", " ", "J", "a", "n", " ", "1", " ", "3", " ",
         "2", "0", "2", "6", " ", "1", "\n", "d", "a", "y">>,
    \* full month name, duration 0, a bar label: 'Wall January 1 4, 2026 0 days trim'
     wall |->
       <<"W", "a", "l", "l", " ", "J", "a", "n", "u", "a", "r", "y", " ",
         "1", " ", "4", ",", " ", "2", "0", "2", "6", " ", "0", " ", "d",
         "a", "y", "s", " ", "t", "r", "i", "m">>,
    \* a header row: 'Title Jan 1 2, 2026 3 days'
     title |->
       <<"T", "i", "t", "l", "e", " ", "J", "a", "n", " ", "1", " ", "2",
         ",", " ", "2", "0", "2", "6", " ", "3", " ", "d", "a", "y", "s">>,
    \* February 31st: 'Roof Feb 3 1, 2026 2 days'
     roof |->
       <<"R", "o", "o", "f", " ", "F", "e", "b", " ", "3", " ", "1", ",",
         " ", "2", "0", "2", "6", " ", "2", " ", "d", "a", "y", "s">>,
    \* a form feed between a page's last line and a task line: 'Notes\fSink Jan 1 5, 2026 3 days'
     notes |->
       <<"N", "o", "t", "e", "s", "\f", "S", "i", "n", "k", " ", "J", "a",
         "n", " ", "1", " ", "5", ",", " ", "2", "0", "2", "6", " ", "3",
         " ", "d", "a", "y", "s">>]

PieceNames == DOMAIN Pieces

\* lines that name the task and the day of `tile` with another date text
DatePieces ==
    \* the day's digits not split: 'Tile Jan 12, 2026 2 days'
    [tileJoined |->
       <<"T", "i", "l", "e", " ", "J", "a", "n", " ", "1", "2", ",", " ",
         "2", "0", "2", "6", " ", "2", " ", "d", "a", "y", "s">>,
    \* the month in full: 'Tile January 1 2, 2026 2 days'
     tileLong |->
       <<"T", "i", "l", "e", " ", "J", "a", "n", "u", "a", "r", "y", " ",
         "1", " ", "2", ",", " ", "2", "0", "2", "6", " ", "2", " ", "d",
         "a", "y", "s">>]

\* the pieces of a text about one task's date: `tile` and its other
\* spellings, and two more task lines
DatePieceNames == {"tile", "tileJoined", "tileLong", "deck", "wall"}

PieceText(name) == IF name \in DOMAIN Pieces THEN Pieces[name] ELSE DatePieces[name]

\* the pieces joined by '\n'
TextOf(names) ==
    Flatten([k \in 1..Len(names) |->
                IF k = 1 THEN PieceText(names[k])
                ELSE <<"\n">> \o PieceText(names[k])])

\* the engines and time zones a call can run in: Node or Chrome at UTC or
\* east of it, Chrome west of UTC, an engine with strict date parsing
Envs ==
    {[lenient |-> TRUE, west |-> FALSE], [lenient |-> TRUE, west |-> TRUE],
     [lenient |-> FALSE, west |-> FALSE]}

\* variables of the extraction while no text is parsed
ExtIdle ==
    /\ xLines = <<>>
    /\ xRaw = <<>>
    /\ xEnv = [lenient |-> TRUE, west |-> FALSE]
    /\ xOp = "none"
    /\ xText = <<>>
    /\ xResult = Null

-----------------------------------------------------------------------------
(* The pages and documents handed to the text reconstruction *)

\* the text of the k-th item of a page of SpecPage, when it is not blank
FragmentTexts == <<"a", "b", "c", "d", "e">>

\* horizontal and vertical coordinates an item of SpecPage can have
Xs == {10, 30}
Ys == {14, 16, 17, 20}

\* the items the k-th item of a page is drawn from
ItemsAt(k) ==
    [str : {<<FragmentTexts[k]>>, <<" ">>}, x : Xs, y : Ys, hasEOL : BOOLEAN]

\* the pages of n items
RECURSIVE PagesOfLength(_)
PagesOfLength(n) ==
    IF n = 0 THEN {<<>>}
    ELSE {Append(page, item) : page \in PagesOfLength(n - 1), item \in ItemsAt(n)}

\* the pages of up to max items
PagesUpTo(max) == UNION {PagesOfLength(n) : n \in 0..max}

\* the pages a document of SpecDoc is made of
Pages ==
    \* two task lines nearly level, each ending its line
    [sideBySide |->
        <<[str |-> <<"J", "a", "n", " ", "5", ",", " ", "2", "0", "2", "6", " ", "1", " ", "d", "a", "y">>,
          x |-> 10, y |-> 100, hasEOL |-> TRUE],
         [str |-> <<"J", "a", "n", " ", "6", ",", " ", "2", "0", "2", "6", " ", "2", " ", "d", "a", "y", "s">>,
          x |-> 60, y |-> 99, hasEOL |-> TRUE]>>,
    \* a task line whose 'days' is emitted before its date
     reversed |->
        <<[str |-> <<"d", "a", "y", "s">>,
          x |-> 80, y |-> 100, hasEOL |-> FALSE],
         [str |-> <<"M", "a", "r", " ", "2", ",", " ", "2", "0", "2", "6", " ", "3">>,
          x |-> 10, y |-> 100, hasEOL |-> TRUE]>>,
    \* one task line
     plain |->
        <<[str |-> <<"F", "e", "b", " ", "3", ",", " ", "2", "0", "2", "6", " ", "2", " ", "d", "a", "y", "s">>,
          x |-> 10, y |-> 100, hasEOL |-> TRUE]>>,
    \* two lines of other text, far apart, the first ending its line
     notes |->
        <<[str |-> <<"a", "b">>,
          x |-> 10, y |-> 100, hasEOL |-> TRUE],
         [str |-> <<"c", "d">>,
          x |-> 10, y |-> 50, hasEOL |-> FALSE]>>,
    \* other text with a double space
     wide |->
        <<[str |-> <<"a", " ", " ", "b">>,
          x |-> 10, y |-> 100, hasEOL |-> FALSE]>>,
    \* a page without text
     blank |->
        <<>>]

PageNames == DOMAIN Pages

\* maxChars: its default value and two small budgets
DefaultMaxChars == 100000
Budgets == {20, 40, DefaultMaxChars}

NoDocOut == [clustered |-> <<>>, sequential |-> <<>>, result |-> <<>>]

\* variables of the page reconstruction while no page is read
PgIdle ==
    /\ pgItems = <<>>
    /\ pgOp = "none"
    /\ pgText = <<>>

\* variables of the document extraction while no document is read
DocIdle ==
    /\ docPdf = <<>>
    /\ docMaxChars = DefaultMaxChars
    /\ docOp = "none"
    /\ docOut = NoDocOut

-----------------------------------------------------------------------------
(* The PDF schedule import: handleScheduleFile of app/schedule/page.tsx and  *)
(* the parse-import route.  The route has its own copy of tryRegexExtract   *)
(* and of the functions it calls, the same text as lib/pdf/regex-parser.ts. *)

\* the texts a PDF can yield, as the pieces they are made of
ImportTexts ==
    [none |-> <<>>,
     short |-> <<"tile">>,
     dull |-> <<"framing", "framing">>,
     three |-> <<"tile", "deck", "wall">>,
     feb |-> <<"tile", "deck", "roof">>,
     long |-> <<"tile", "deck", "wall", "framing", "framing", "framing", "framing",
               "framing">>,
     longFeb |-> <<"tile", "deck", "roof", "framing", "framing", "framing", "framing",
                  "framing">>,
     longDull |-> <<"framing", "framing", "framing", "framing", "framing", "framing",
                   "framing", "framing">>]

ImportText(name) == TextOf(ImportTexts[name])

\* file.size: under 4 MB, from 4 MB to 10 MB, over 10 MB
FileSizes == {"small", "medium", "large"}

\* how the call of parseSchedulePDFWithGemini ends, raced against the timer
GeminiOutcomes == {"tasks", "empty", "timeout", "error"}

\* the tasks of a non-empty answer of the AI parser
GeminiTasks ==
    <<[name |-> <<"A", "I">>, trade |-> "General", duration_days |-> 1,
       start_date |-> <<2026, 1, 12>>, end_date |-> <<2026, 1, 12>>]>>

NoRequest == [sent |-> FALSE, pdf |-> FALSE, size |-> "small", text |-> <<>>]
NoResponse == [status |-> 0, step |-> "none", tasks |-> <<>>]
NoGemini == [called |-> FALSE, text |-> <<>>]
NothingShown == [kind |-> "none", tasks |-> <<>>]

\* handleScheduleFile, step 2: clientText.length >= 50 ? tryRegexExtract(clientText) : no result
clientRegex(clientText, env) ==
    IF Len(clientText) >= 50 THEN tryRegexExtract(clientText, env) ELSE Null

\* handleScheduleFile, step 3: the form data of the request
formDataOf(clientText, size) ==
    IF Len(clientText) >= 200
    THEN [sent |-> TRUE, pdf |-> size = "small", size |-> size, text |-> clientText]
    ELSE [sent |-> TRUE, pdf |-> TRUE, size |-> size,
          text |-> IF Len(clientText) >= 50 THEN clientText ELSE <<>>]

regexIfLongEnough_200(text, env) ==
    IF Len(trim(text)) >= 200 THEN tryRegexExtract(text, env) ELSE Null

\* text.trim().length >= 50 ? tryRegexExtract(text) : null
regexIfLongEnough(text, env) ==
    IF Len(trim(text)) >= 50 THEN tryRegexExtract(text, env) ELSE Null

\* regexTasks?.length ?? 0
lengthOrZero(regexTasks) == IF regexTasks.null THEN 0 ELSE Len(regexTasks.tasks)

\* the parse-import route from the form data on, up to its response or to
\* its call of the AI parser; extracted is what unpdf's extractText gives
\* for the file ([failed, text])
parseImport(req, extracted, env) ==
    LET Respond(status, step, ts) ==
            [gemini |-> NoGemini, resp |-> [status |-> status, step |-> step, tasks |-> ts]]
        Fallback(pdfText) ==
            IF Len(trim(pdfText)) < 50 THEN Respond(400, "text_too_short", <<>>)
            ELSE [gemini |-> [called |-> TRUE, text |-> pdfText], resp |-> NoResponse]
        AfterRegex(clientText, pdfText, regexTasksServer, regexTasksClient) ==
            IF lengthOrZero(regexTasksServer) > 0 \/ lengthOrZero(regexTasksClient) > 0
            THEN Respond(200, "regex_success",
                         IF lengthOrZero(regexTasksClient) > lengthOrZero(regexTasksServer)
                         THEN regexTasksClient.tasks ELSE regexTasksServer.tasks)
            ELSE Fallback(IF Len(trim(clientText)) > Len(trim(pdfText))
                          THEN clientText ELSE pdfText)
        WithTexts(clientText, pdfText) ==
            AfterRegex(clientText, pdfText,
                       regexIfLongEnough(pdfText, env), regexIfLongEnough(clientText, env))
        WithClientText(clientText, serverText) ==
            IF Len(trim(clientText)) >= 200 THEN WithTexts(clientText, clientText)
            ELSE IF Len(trim(serverText)) < 50 /\ Len(trim(clientText)) >= 50
                 THEN WithTexts(clientText, clientText)
                 ELSE WithTexts(clientText, serverText)
    IN  IF ~req.pdf THEN Respond(400, "form_data", <<>>)
        ELSE IF req.size = "large" THEN Respond(400, "form_data", <<>>)
        ELSE WithClientText(req.text, IF extracted.failed THEN <<>> ELSE extracted.text)

\* the response of the route once the AI parser's call has ended
geminiResponse(outcome) ==
    CASE outcome = "tasks" -> [status |-> 200, step |-> "gemini_success", tasks |-> GeminiTasks]
      [] outcome = "empty" -> [status |-> 400, step |-> "gemini_empty", tasks |-> <<>>]
      [] outcome = "timeout" -> [status |-> 408, step |-> "gemini_failed", tasks |-> <<>>]
      [] OTHER -> [status |-> 500, step |-> "gemini_failed", tasks |-> <<>>]

\* handleScheduleFile after the fetch: what the dialog shows for a response
shownFor(resp) ==
    IF resp.status # 200 THEN [kind |-> "error", tasks |-> <<>>]
    ELSE IF Len(resp.tasks) > 0 THEN [kind |-> "tasks", tasks |-> resp.tasks]
    ELSE [kind |-> "error", tasks |-> <<>>]

\* variables of the import while no file is chosen
ImpIdle ==
    /\ imIn = [client |-> "none", server |-> "none", cEnv |-> [lenient |-> TRUE, west |-> FALSE],
               sEnv |-> [lenient |-> TRUE, west |-> FALSE], size |-> "small",
               gemini |-> "tasks"]
    /\ imPc = "idle"
    /\ imReq = NoRequest
    /\ imGemini = NoGemini
    /\ imResp = NoResponse
    /\ imShown = NothingShown

-----------------------------------------------------------------------------
(* The task editor: handleAddTask and handleDeleteTask of                   *)
(* app/schedule/page.tsx, reorderTasks of the useSchedule hook.  A task is  *)
(* its id, its depends_on array and its sequence_index; the operations     *)
(* read and write no other field that these three depend on.               *)

\* the ids crypto.randomUUID() hands out, in the order it does
EditorIds == <<"A", "B", "C", "D", "E">>

\* crypto.randomUUID(): an id no task has
randomUUID(ts) ==
    EditorIds[CHOOSE k \in 1..Len(EditorIds) :
                 /\ \A i \in 1..Len(ts) : ts[i].id # EditorIds[k]
                 /\ \A j \in 1..(k - 1) : \E i \in 1..Len(ts) : ts[i].id = EditorIds[j]]

\* array.splice(at, 0, item) on a copy: at is a 0-based index
spliceIn(ts, at, item) == SubSeq(ts, 1, at) \o <<item>> \o SubSeq(ts, at + 1, Len(ts))

\* array.splice(at, 1) on a copy
spliceOut(ts, at) == SubSeq(ts, 1, at) \o SubSeq(ts, at + 2, Len(ts))

\* tasks.map((t, i) => ({ ...t, sequence_index: i }))
reindexed(ts) == [i \in 1..Len(ts) |-> [ts[i] EXCEPT !.sequence_index = i - 1]]

\* handleAddTask(afterIndex): afterIndex is <<>> for `undefined`, else <<index>>
handleAddTask(ts, afterIndex) ==
    LET insertAt == IF afterIndex # <<>> THEN afterIndex[1] + 1 ELSE Len(ts)
        prevTask == IF afterIndex # <<>> THEN <<ts[afterIndex[1] + 1]>>
                    ELSE IF ts # <<>> THEN <<ts[Len(ts)]>> ELSE <<>>
        newTask == [id |-> randomUUID(ts),
                    depends_on |-> IF prevTask # <<>> THEN <<prevTask[1].id>> ELSE <<>>,
                    sequence_index |-> insertAt]
    IN  reindexed(spliceIn(ts, insertAt, newTask))

\* handleDeleteTask(taskId)
handleDeleteTask(ts, taskId) ==
    LET kept == SelectSeq(ts, LAMBDA t : t.id # taskId)
    IN  [index \in 1..Len(kept) |->
            [kept[index] EXCEPT
                !.depends_on = SelectSeq(kept[index].depends_on, LAMBDA depId : depId # taskId),
                !.sequence_index = index - 1]]

\* reorderTasks(sourceIndex, destIndex): 0-based indices of the table rows
reorderTasks(ts, sourceIndex, destIndex) ==
    reindexed(spliceIn(spliceOut(ts, sourceIndex), destIndex, ts[sourceIndex + 1]))

\* variables of the editor while no schedule is open
EdIdle ==
    /\ edTasks = <<>>
    /\ edOp = "none"
    /\ edCount = 0

-----------------------------------------------------------------------------
(* Autosave: updateTasks of the useSchedule hook and the PATCH handler of   *)
(* /api/schedule/[id]/tasks.  A task list is the edit that produced it     *)
(* (0 for the list loaded with the project) and whether its dates are the  *)
(* server's recalculation of that edit.                                    *)

AUTOSAVE_DELAY == 2000

\* the list the n-th call of updateTasks is given
editedTasks(n) == [edit |-> n, recalculated |-> FALSE]

\* recalculateTasks on the server: the same edit with its dates recomputed
recalculatedTasks(ts) == [ts EXCEPT !.recalculated = TRUE]

\* const saveDelay = immediate ? 0 : AUTOSAVE_DELAY
saveDelay(immediate) == IF immediate THEN 0 ELSE AUTOSAVE_DELAY

\* the body of the PATCH request
patchBody(pending) == [tasks |-> pending, recalculate |-> TRUE]

\* PATCH: finalTasks of the handler
patchFinalTasks(body) ==
    IF body.recalculate THEN recalculatedTasks(body.tasks) ELSE body.tasks

\* variables of autosave for a project that was loaded and never edited
SaveIdle ==
    /\ stateTasks = recalculatedTasks(editedTasks(0))
    /\ stateStatus = "idle"
    /\ pendingTasksRef = <<>>
    /\ autosaveTimeoutRef = <<>>
    /\ requests = {}
    /\ responses = {}
    /\ patched = <<>>
    /\ dbTasks = recalculatedTasks(editedTasks(0))
    /\ lastEdit = 0

-----------------------------------------------------------------------------
(* Calendar calls: the inputs are drawn in Init, every action is one call *)

\* first day of the window the date arguments are drawn from (a Saturday)
WindowStart == <<2026, 1, 17>>

DateStrings ==
    {format(addDays(parseISO(WindowStart), k)) : k \in 0..(DateSpan - 1)}

NoResult == [date |-> 0, other |-> 0, count |-> 0, flag |-> FALSE, steps |-> 0]

\* variables of the recalculation while only calendar calls are made
RecIdle ==
    /\ tasks = <<>>
    /\ projectStartDate = WindowStart
    /\ projectWorkDays = "mon-fri"
    /\ finalTasks = <<>>
    /\ prevTasks = <<>>
    /\ pc = "idle"

InitCal ==
    /\ cStart \in DateStrings
    /\ cOther \in DateStrings
    /\ cN \in -1..MaxN
    /\ cMode \in WorkWeeks
    /\ cOp = "none"
    /\ cRes = NoResult
    /\ RecIdle
    /\ ExtIdle
    /\ PgIdle
    /\ DocIdle
    /\ ImpIdle
    /\ EdIdle
    /\ SaveIdle

CallIsWorkday ==
    /\ cOp' = "isWorkday"
    /\ cRes' = [NoResult EXCEPT !.flag = isWorkday(parseISO(cStart), cMode)]
    /\ UNCHANGED <<cStart, cOther, cN, cMode>>
    /\ UNCHANGED <<recVars, extVars, pgVars, docVars, impVars, edVars, saveVars>>

CallNextWorkday ==
    /\ cOp' = "nextWorkday"
    /\ cRes' = [NoResult EXCEPT
                  !.date = nextWorkday(Str(cStart), cMode),
                  !.steps = nextWorkdayRun(Str(cStart), cMode).steps]
    /\ UNCHANGED <<cStart, cOther, cN, cMode>>
    /\ UNCHANGED <<recVars, extVars, pgVars, docVars, impVars, edVars, saveVars>>

\* calculateEndDate(cStart, cN, cMode) and calculateEndDate(cOther, cN, cMode)
CallCalculateEndDate ==
    /\ cOp' = "calculateEndDate"
    /\ cRes' = [NoResult EXCEPT
                  !.date = calculateEndDate(Str(cStart), cN, cMode),
                  !.other = calculateEndDate(Str(cOther), cN, cMode)]
    /\ UNCHANGED <<cStart, cOther, cN, cMode>>
    /\ UNCHANGED <<recVars, extVars, pgVars, docVars, impVars, edVars, saveVars>>

CallCountWorkdays ==
    /\ cOp' = "countWorkdays"
    /\ cRes' = [NoResult EXCEPT
                  !.count = countWorkdays(Str(cStart), Str(cOther), cMode)]
    /\ UNCHANGED <<cStart, cOther, cN, cMode>>
    /\ UNCHANGED <<recVars, extVars, pgVars, docVars, impVars, edVars, saveVars>>

\* addWorkdays(cStart, cN) and addWorkdays(cOther, cN) of the regex parser
CallAddWorkdays ==
    /\ cOp' = "addWorkdays"
    /\ cRes' = [NoResult EXCEPT
                  !.date = addWorkdays(parseISO(cStart), cN),
                  !.other = addWorkdays(parseISO(cOther), cN)]
    /\ UNCHANGED <<cStart, cOther, cN, cMode>>
    /\ UNCHANGED <<recVars, extVars, pgVars, docVars, impVars, edVars, saveVars>>

\* e = calculateEndDate(cStart, cN + 1, cMode), then countWorkdays(cStart, e, cMode)
CallRoundTrip ==
    /\ cN >= 0
    /\ cOp' = "roundTrip"
    /\ LET e == calculateEndDate(Str(cStart), cN + 1, cMode)
       IN  cRes' = [NoResult EXCEPT
                      !.date = e,
                      !.count = countWorkdays(Str(cStart), DateObj(e), cMode)]
    /\ UNCHANGED <<cStart, cOther, cN, cMode>>
    /\ UNCHANGED <<recVars, extVars, pgVars, docVars, impVars, edVars, saveVars>>

NextCal ==
    \/ CallIsWorkday
    \/ CallNextWorkday
    \/ CallCalculateEndDate
    \/ CallCountWorkdays
    \/ CallAddWorkdays
    \/ CallRoundTrip

SpecCal == InitCal /\ [][NextCal]_vars

-----------------------------------------------------------------------------
(* The task lists a PATCH request can carry, and the PATCH handler *)

IdNames == <<"A", "B", "C", "D", "E">>
TaskNames == <<"Demo", "Framing", "Drywall", "Paint", "Trim">>
\* an id that belongs to no task of the project
MissingId == "missing"

\* the project start dates tried: a Monday, a Saturday and a Sunday
StartDates == {<<2026, 1, 19>>, <<2026, 1, 24>>, <<2026, 1, 25>>}

IdOf(t) == IF t = 0 THEN MissingId ELSE IdNames[t]

\* the subsets of S with at most k elements
RECURSIVE SubsetsUpTo(_, _)
SubsetsUpTo(S, k) ==
    IF k = 0 THEN {{}}
    ELSE LET smaller == SubsetsUpTo(S, k - 1)
         IN  smaller \cup {T \cup {e} : T \in smaller, e \in S}

\* a dependency reference <<i, t>>: task i names task t (0: the missing id)
References(n) == (1..n) \X (0..n)

RECURSIVE AscendingIds(_)
AscendingIds(T) ==
    IF T = {} THEN <<>>
    ELSE LET t == CHOOSE x \in T : \A y \in T : x <= y
         IN  <<IdOf(t)>> \o AscendingIds(T \ {t})

\* dates left on a task by an earlier save
StaleDate(i) == <<2026, 2, i>>

\* a project of n tasks: task i is at array position i; the array is in
\* sequence order or in the reverse of it
MakeTasks(n, refs, dur, reversed) ==
    [i \in 1..n |->
        [id |-> IdNames[i],
         name |-> TaskNames[i],
         duration_days |-> dur[i],
         depends_on |-> AscendingIds({t \in 0..n : <<i, t>> \in refs}),
         sequence_index |-> IF reversed THEN n - i ELSE i - 1,
         start_date |-> StaleDate(i),
         end_date |-> StaleDate(i)]]

\* variables of the calendar calls while the PATCH handler runs
CalIdle ==
    /\ cStart = WindowStart
    /\ cOther = WindowStart
    /\ cN = 0
    /\ cMode = "mon-fri"
    /\ cOp = "none"
    /\ cRes = NoResult

Init ==
    /\ \E n \in 1..MaxTasks :
         \E refs \in SubsetsUpTo(References(n), MaxEdges),
            dur \in [1..n -> 0..MaxDur],
            reversed \in BOOLEAN :
              tasks = MakeTasks(n, refs, dur, reversed)
    /\ projectStartDate \in StartDates
    /\ projectWorkDays \in WorkWeeks
    /\ finalTasks = <<>>
    /\ prevTasks = <<>>
    /\ pc = "ready"
    /\ CalIdle
    /\ ExtIdle
    /\ PgIdle
    /\ DocIdle
    /\ ImpIdle
    /\ EdIdle
    /\ SaveIdle

\* PATCH /api/schedule/[id]/tasks with body {tasks, recalculate}
PATCH(recalculate) ==
    /\ pc = "ready"
    /\ prevTasks' = tasks
    /\ IF recalculate
       THEN LET call == recalculateTasksEffect(tasks, Str(projectStartDate),
                                               projectWorkDays)
            IN  /\ tasks' = call.input
                /\ finalTasks' = call.returned
                /\ pc' = "recalculated"
       ELSE /\ tasks' = tasks
            /\ finalTasks' = tasks
            /\ pc' = "saved"
    /\ UNCHANGED <<projectStartDate, projectWorkDays>>
    /\ UNCHANGED <<calVars, extVars, pgVars, docVars, impVars, edVars, saveVars>>

\* the autosave loop: the client sends the tasks of the last response again
Resave ==
    /\ pc = "recalculated"
    /\ prevTasks' = finalTasks
    /\ LET call == recalculateTasksEffect(finalTasks, Str(projectStartDate),
                                          projectWorkDays)
       IN  /\ tasks' = call.input
           /\ finalTasks' = call.returned
    /\ pc' = "resaved"
    /\ UNCHANGED <<projectStartDate, projectWorkDays>>
    /\ UNCHANGED <<calVars, extVars, pgVars, docVars, impVars, edVars, saveVars>>

Next ==
    \/ \E recalculate \in BOOLEAN : PATCH(recalculate)
    \/ Resave

Spec == Init /\ [][Next]_vars

-----------------------------------------------------------------------------
(* Extraction calls: the raw text is drawn in Init, every action is one call *)

InitExtract ==
    /\ xLines \in UNION {[1..n -> PieceNames] : n \in 0..MaxLines}
    /\ xRaw = TextOf(xLines)
    /\ xEnv = [lenient |-> TRUE, west |-> FALSE]
    /\ xOp = "none"
    /\ xText = <<>>
    /\ xResult = Null
    /\ CalIdle
    /\ RecIdle
    /\ PgIdle
    /\ DocIdle
    /\ ImpIdle
    /\ EdIdle
    /\ SaveIdle

CallNormalizeExtractedText ==
    /\ xOp = "none"
    /\ xOp' = "normalizeExtractedText"
    /\ xText' = normalizeExtractedText(xRaw)
    /\ UNCHANGED <<xLines, xRaw, xEnv, xResult>>
    /\ UNCHANGED <<calVars, recVars, pgVars, docVars, impVars, edVars, saveVars>>

CallTryRegexExtract ==
    /\ xOp = "none"
    /\ \E env \in Envs :
        /\ xEnv' = env
        /\ xResult' = tryRegexExtract(xRaw, env)
    /\ xOp' = "tryRegexExtract"
    /\ UNCHANGED <<xLines, xRaw, xText>>
    /\ UNCHANGED <<calVars, recVars, pgVars, docVars, impVars, edVars, saveVars>>

NextExtract ==
    \/ CallNormalizeExtractedText
    \/ CallTryRegexExtract

SpecExtract == InitExtract /\ [][NextExtract]_vars

\* the same calls on texts that spell one task's date in several ways
InitExtractDates ==
    /\ xLines \in UNION {[1..n -> DatePieceNames] : n \in 0..MaxLines}
    /\ xRaw = TextOf(xLines)
    /\ xEnv = [lenient |-> TRUE, west |-> FALSE]
    /\ xOp = "none"
    /\ xText = <<>>
    /\ xResult = Null
    /\ CalIdle
    /\ RecIdle
    /\ PgIdle
    /\ DocIdle
    /\ ImpIdle
    /\ EdIdle
    /\ SaveIdle

SpecExtractDates == InitExtractDates /\ [][NextExtract]_vars

-----------------------------------------------------------------------------
(* Text reconstruction calls: a page or a document is drawn in Init *)

InitPage ==
    /\ pgItems \in PagesUpTo(MaxItems)
    /\ pgOp = "none"
    /\ pgText = <<>>
    /\ DocIdle
    /\ CalIdle
    /\ RecIdle
    /\ ExtIdle
    /\ ImpIdle
    /\ EdIdle
    /\ SaveIdle

\* reconstructPageText(items) is extractYClustered(items)
CallExtractYClustered ==
    /\ pgOp = "none"
    /\ pgOp' = "extractYClustered"
    /\ pgText' = extractYClustered(pgItems)
    /\ UNCHANGED <<pgItems, docVars, calVars, recVars, extVars, impVars, edVars, saveVars>>

CallExtractSequential ==
    /\ pgOp = "none"
    /\ pgOp' = "extractSequential"
    /\ pgText' = extractSequential(pgItems)
    /\ UNCHANGED <<pgItems, docVars, calVars, recVars, extVars, impVars, edVars, saveVars>>

NextPage ==
    \/ CallExtractYClustered
    \/ CallExtractSequential

SpecPage == InitPage /\ [][NextPage]_vars

InitDoc ==
    /\ docPdf \in UNION {[1..n -> PageNames] : n \in 0..MaxPages}
    /\ docMaxChars \in Budgets
    /\ docOp = "none"
    /\ docOut = NoDocOut
    /\ PgIdle
    /\ CalIdle
    /\ RecIdle
    /\ ExtIdle
    /\ ImpIdle
    /\ EdIdle
    /\ SaveIdle

CallExtractTextFromPdfDocument ==
    /\ docOp = "none"
    /\ docOp' = "extractTextFromPdfDocument"
    /\ docOut' = extractTextFromPdfDocument(
                      [i \in 1..Len(docPdf) |-> Pages[docPdf[i]]], docMaxChars)
    /\ UNCHANGED <<docPdf, docMaxChars, pgVars, calVars, recVars, extVars, impVars, edVars, saveVars>>

NextDoc == CallExtractTextFromPdfDocument

SpecDoc == InitDoc /\ [][NextDoc]_vars

-----------------------------------------------------------------------------
(* Properties of the calendar calls *)

\* the weekdays, counted from the two dates the calendar names:
\* 2026-01-24 is a Saturday and 2026-01-25 a Sunday
IsSaturday(d) == (d - parseISO(<<2026, 1, 24>>)) % 7 = 0
IsSunday(d) == (d - parseISO(<<2026, 1, 25>>)) % 7 = 0

\* the workdays of the closed interval [a, b]
WorkdaysIn(a, b, ww) == {d \in a..b : isWorkday(d, ww)}

\* C6 as stated: for every date s (workday or not), every n >= 0 and either
\* mode, countWorkdays(s, calculateEndDate(s, n + 1, mode), mode) = n.
C6_RoundTripAnyStart ==
    cOp = "roundTrip" => cRes.count = cN

\* C6 amended: the round trip holds when s is a workday under the mode, or n = 0.
C6_RoundTripWorkdayStart ==
    (cOp = "roundTrip" /\ (isWorkday(parseISO(cStart), cMode) \/ cN = 0))
        => cRes.count = cN

C6_Witness ==
    /\ cOp = "roundTrip"
    /\ isWorkday(parseISO(cStart), cMode)
    /\ cN = 6
    /\ cRes.count = 6
    /\ cRes.date > parseISO(cStart) + 6

\* C7: calculateEndDate counts the start day: a duration <= 1 returns the
\* start unchanged; from a workday start and a duration d >= 2 it returns a
\* workday e with exactly d workdays in [start, e]; Mon 2026-01-19, 5 days,
\* mon-fri gives Fri 2026-01-23.
C7_EndDateInclusive ==
    cOp = "calculateEndDate" =>
        LET s == parseISO(cStart)
            e == cRes.date
        IN  /\ cN <= 1 => e = s
            /\ (cN >= 2 /\ isWorkday(s, cMode)) =>
                  /\ isWorkday(e, cMode)
                  /\ e >= s
                  /\ Cardinality(WorkdaysIn(s, e, cMode)) = cN
            /\ (cStart = <<2026, 1, 19>> /\ cN = 5 /\ cMode = "mon-fri")
                  => format(e) = <<2026, 1, 23>>

C7_Witness ==
    /\ cOp = "calculateEndDate"
    /\ cStart = <<2026, 1, 19>>
    /\ cN = 5
    /\ cMode = "mon-fri"
    /\ format(cRes.date) = <<2026, 1, 23>>

\* C8: nextWorkday returns the smallest date >= its argument that is a
\* workday: the result is a workday, no workday lies in [date, result), it is
\* the argument itself when that is a workday, and the loop takes at most 2
\* day-steps under mon-fri and at most 1 under mon-sat.
C8_NextWorkdaySmallest ==
    cOp = "nextWorkday" =>
        LET s == parseISO(cStart)
            r == cRes.date
        IN  /\ r >= s
            /\ isWorkday(r, cMode)
            /\ \A d \in s..(r - 1) : ~isWorkday(d, cMode)
            /\ isWorkday(s, cMode) => r = s
            /\ cRes.steps = r - s
            /\ cRes.steps <= (IF cMode = "mon-fri" THEN 2 ELSE 1)

C8_Witness ==
    /\ cOp = "nextWorkday"
    /\ cMode = "mon-fri"
    /\ IsSaturday(parseISO(cStart))
    /\ cRes.steps = 2
    /\ cRes.date = parseISO(cStart) + 2

\* C9: isWorkday(d, mon-fri) is false iff d is a Saturday or a Sunday, and
\* isWorkday(d, mon-sat) is false iff d is a Sunday.
C9_IsWorkday ==
    cOp = "isWorkday" =>
        LET d == parseISO(cStart)
        IN  /\ cMode = "mon-fri" => (cRes.flag = FALSE <=> (IsSaturday(d) \/ IsSunday(d)))
            /\ cMode = "mon-sat" => (cRes.flag = FALSE <=> IsSunday(d))

C9_Witness ==
    /\ cOp = "isWorkday"
    /\ cStart = <<2026, 1, 24>>
    /\ cMode = "mon-sat"
    /\ cRes.flag = TRUE

\* C10: workday addition is monotonic in its date argument: for a fixed
\* count and mode, d1 <= d2 implies that the date reached from d1 is not
\* later than the date reached from d2 (calculateEndDate and addWorkdays).
C10_Monotonic ==
    (cOp \in {"calculateEndDate", "addWorkdays"}
        /\ parseISO(cStart) <= parseISO(cOther))
        => cRes.date <= cRes.other

C10_Witness ==
    /\ cOp = "calculateEndDate"
    /\ parseISO(cStart) < parseISO(cOther)
    /\ ~isWorkday(parseISO(cStart), cMode)
    /\ cN >= 2
    /\ cRes.date = cRes.other

-----------------------------------------------------------------------------
(* Properties of recalculateTasks *)

Recalculated == pc \in {"recalculated", "resaved"}

Elements(seq) == {seq[k] : k \in 1..Len(seq)}

TaskWithId(ts, id) == ts[CHOOSE k \in 1..Len(ts) : ts[k].id = id]

\* the ids in t.depends_on that belong to a task of ts with a strictly
\* smaller sequence_index than t
ResolvedDeps(ts, t) ==
    {d \in Elements(t.depends_on) :
        \E k \in 1..Len(ts) :
            ts[k].id = d /\ ts[k].sequence_index < t.sequence_index}

MaxOf(S) == CHOOSE x \in S : \A y \in S : y <= x

\* the dates of every task, by id
DatesById(ts) ==
    {<<ts[k].id, ts[k].start_date, ts[k].end_date>> : k \in 1..Len(ts)}

NonDateFields(t) ==
    [id |-> t.id, name |-> t.name, duration_days |-> t.duration_days,
     depends_on |-> t.depends_on, sequence_index |-> t.sequence_index]

\* the request tasks with their stored dates wiped
ClearDates(ts) ==
    [k \in 1..Len(ts) |-> [ts[k] EXCEPT !.start_date = NoDate, !.end_date = NoDate]]

\* the request tasks with every unresolved id removed from depends_on
WithoutUnresolved(ts) ==
    [k \in 1..Len(ts) |->
        [ts[k] EXCEPT !.depends_on =
            SelectSeq(ts[k].depends_on, LAMBDA d : d \in ResolvedDeps(ts, ts[k]))]]

\* the request tasks with every duration <= 0 replaced by 1
ClampDurations(ts) ==
    [k \in 1..Len(ts) |->
        [ts[k] EXCEPT !.duration_days = IF @ <= 0 THEN 1 ELSE @]]

\* C1: a task with an empty depends_on starts on nextWorkday(project start);
\* a task whose dependencies all have a strictly smaller sequence_index
\* starts on nextWorkday(latest end of its dependencies + 1 day); in both
\* cases end = calculateEndDate(start, duration_days). mon-fri from Mon
\* 2026-01-19: A (3 days) is 01-19..01-21, B (after A, 2 days) 01-22..01-23.
C1_StartDateRule ==
    Recalculated =>
        \A k \in 1..Len(finalTasks) :
            LET t == finalTasks[k]
                start == parseISO(t.start_date)
                deps == Elements(t.depends_on)
            IN  /\ t.depends_on = <<>> =>
                      start = nextWorkday(Str(projectStartDate), projectWorkDays)
                /\ (t.depends_on # <<>> /\ deps = ResolvedDeps(finalTasks, t)) =>
                      LET latest_end ==
                            MaxOf({parseISO(TaskWithId(finalTasks, d).end_date) :
                                      d \in deps})
                      IN  start = nextWorkday(DateObj(latest_end + 1),
                                              projectWorkDays)
                /\ parseISO(t.end_date) =
                      calculateEndDate(Str(t.start_date), t.duration_days,
                                       projectWorkDays)

C1_Witness ==
    /\ pc = "recalculated"
    /\ projectStartDate = <<2026, 1, 19>>
    /\ projectWorkDays = "mon-fri"
    /\ Len(finalTasks) = 2
    /\ finalTasks[1].id = "A" /\ finalTasks[1].depends_on = <<>>
    /\ finalTasks[1].duration_days = 3
    /\ finalTasks[1].start_date = <<2026, 1, 19>>
    /\ finalTasks[1].end_date = <<2026, 1, 21>>
    /\ finalTasks[2].id = "B" /\ finalTasks[2].depends_on = <<"A">>
    /\ finalTasks[2].duration_days = 2
    /\ finalTasks[2].start_date = <<2026, 1, 22>>
    /\ finalTasks[2].end_date = <<2026, 1, 23>>

\* C2: recalculateTasks run on its own output gives every task the dates of
\* the first run, and the dates stored on the input never reach the result:
\* the first run gives the dates it gives with the stored dates wiped.
C2_Idempotent ==
    /\ pc = "resaved" => DatesById(finalTasks) = DatesById(prevTasks)
    /\ pc = "recalculated" =>
          DatesById(finalTasks) =
              DatesById(recalculateTasks(ClearDates(prevTasks),
                                         Str(projectStartDate), projectWorkDays))

C2_Witness ==
    /\ pc = "resaved"
    /\ Len(finalTasks) = 3
    /\ \E k \in 1..3 : Len(finalTasks[k].depends_on) = 2
    /\ \E k \in 1..3 : finalTasks[k].duration_days = 3
    /\ DatesById(finalTasks) = DatesById(prevTasks)
    /\ \A k \in 1..3 : finalTasks[k].start_date # StaleDate(k)

\* C3: a depends_on id that does not resolve to an already processed task
\* (missing id, forward reference, self reference) is treated as absent: the
\* tasks get the dates they get with that id removed from depends_on, so a
\* task whose dependencies are all unresolved starts on nextWorkday(project
\* start).
C3_UnresolvedIsAbsent ==
    pc = "recalculated" =>
        /\ DatesById(finalTasks) =
              DatesById(recalculateTasks(WithoutUnresolved(prevTasks),
                                         Str(projectStartDate), projectWorkDays))
        /\ \A k \in 1..Len(finalTasks) :
              ResolvedDeps(finalTasks, finalTasks[k]) = {} =>
                  parseISO(finalTasks[k].start_date) =
                      nextWorkday(Str(projectStartDate), projectWorkDays)

\* C4: recalculateTasks leaves the caller's array as it was (order and
\* fields) and returns the same tasks: as many, the same ids, equal non-date
\* fields, each with start_date and end_date, in ascending sequence_index.
C4_InputUntouched ==
    Recalculated =>
        /\ tasks = prevTasks
        /\ Len(finalTasks) = Len(prevTasks)
        /\ \A id \in {prevTasks[k].id : k \in 1..Len(prevTasks)} :
              Cardinality({k \in 1..Len(finalTasks) : finalTasks[k].id = id})
                = Cardinality({k \in 1..Len(prevTasks) : prevTasks[k].id = id})
        /\ \A k \in 1..Len(finalTasks) :
              /\ NonDateFields(finalTasks[k])
                    = NonDateFields(TaskWithId(prevTasks, finalTasks[k].id))
              /\ finalTasks[k].start_date # NoDate
              /\ finalTasks[k].end_date # NoDate
        /\ \A k \in 1..(Len(finalTasks) - 1) :
              finalTasks[k].sequence_index <= finalTasks[k + 1].sequence_index

C4_Witness ==
    /\ pc = "recalculated"
    /\ Len(prevTasks) = 3
    /\ prevTasks[1].sequence_index = 2
    /\ prevTasks[3].sequence_index = 0
    /\ tasks = prevTasks
    /\ finalTasks[1].id = prevTasks[3].id
    /\ finalTasks[1].start_date # prevTasks[3].start_date

\* C5: every returned task has end_date >= start_date, and a task with
\* duration_days <= 0 is scheduled as if its duration were 1: it ends on
\* its start date, and every task gets the dates it gets with that
\* duration replaced by 1.
C5_EndNotBeforeStart ==
    Recalculated =>
        /\ \A k \in 1..Len(finalTasks) :
              /\ parseISO(finalTasks[k].end_date) >= parseISO(finalTasks[k].start_date)
              /\ finalTasks[k].duration_days <= 0 =>
                    finalTasks[k].end_date = finalTasks[k].start_date
        /\ DatesById(finalTasks) =
              DatesById(recalculateTasks(ClampDurations(prevTasks),
                                         Str(projectStartDate), projectWorkDays))

C5_Witness ==
    /\ pc = "recalculated"
    /\ \E k, j \in 1..Len(finalTasks) :
          /\ finalTasks[k].duration_days = 0
          /\ finalTasks[k].end_date = finalTasks[k].start_date
          /\ finalTasks[j].depends_on = <<finalTasks[k].id>>
          /\ finalTasks[j].sequence_index > finalTasks[k].sequence_index
          /\ finalTasks[j].duration_days = 3
          /\ parseISO(finalTasks[j].start_date) > parseISO(finalTasks[k].end_date)
          /\ parseISO(finalTasks[j].end_date) > parseISO(finalTasks[j].start_date) + 2

\* C28: every start_date and every end_date of the result is a workday of
\* the project's work week, whatever the dependencies (resolved or not),
\* the durations (0 included) and the project start (weekends included).
C28_DatesAreWorkdays ==
    Recalculated =>
        \A k \in 1..Len(finalTasks) :
            /\ isWorkday(parseISO(finalTasks[k].start_date), projectWorkDays)
            /\ isWorkday(parseISO(finalTasks[k].end_date), projectWorkDays)

C28_Witness ==
    /\ pc = "recalculated"
    /\ projectStartDate = <<2026, 1, 24>>
    /\ projectWorkDays = "mon-fri"
    /\ ~isWorkday(parseISO(projectStartDate), projectWorkDays)
    /\ \E k, j \in 1..Len(finalTasks) :
          /\ finalTasks[k].depends_on = <<MissingId>>
          /\ finalTasks[k].duration_days = 0
          /\ finalTasks[k].start_date = <<2026, 1, 26>>
          /\ finalTasks[k].end_date = <<2026, 1, 26>>
          /\ finalTasks[j].duration_days = 3
          /\ finalTasks[j].depends_on = <<>>
          /\ finalTasks[j].start_date = <<2026, 1, 26>>
          /\ finalTasks[j].end_date = <<2026, 1, 28>>

\* C29: in the result every task starts strictly after the end of each task
\* it depends on that has a strictly smaller sequence_index, and no task
\* starts before the project start date.
C29_StartsAfterDependencies ==
    Recalculated =>
        \A k \in 1..Len(finalTasks) :
            LET t == finalTasks[k]
            IN  /\ parseISO(t.start_date) >= parseISO(projectStartDate)
                /\ \A d \in ResolvedDeps(finalTasks, t) :
                      parseISO(t.start_date) >
                          parseISO(TaskWithId(finalTasks, d).end_date)

C29_Witness ==
    /\ pc = "recalculated"
    /\ Len(finalTasks) = 3
    /\ \E k \in 1..3 :
          LET t == finalTasks[k]
          IN  /\ Cardinality(ResolvedDeps(finalTasks, t)) = 2
              /\ \E d, e \in ResolvedDeps(finalTasks, t) :
                    /\ parseISO(TaskWithId(finalTasks, d).end_date)
                          < parseISO(TaskWithId(finalTasks, e).end_date)
                    /\ parseISO(t.start_date)
                          > parseISO(TaskWithId(finalTasks, e).end_date)

-----------------------------------------------------------------------------
(* Properties of the schedule extraction *)

Extracted == xOp = "tryRegexExtract"

\* the records of the returned array, none when null was returned
Records == IF xResult.null THEN <<>> ELSE xResult.tasks

Framing == <<"F", "r", "a", "m", "i", "n", "g">>

\* C11: every extracted record ends (duration_days - 1) workdays after its
\* start, as calculateEndDate counts (a 1-day task ends on its start date),
\* and a returned array for a text holding 'Framing Jan 5, 2026 10 days' has
\* the record Framing, ending 9 workdays after its start.
C11_InclusiveEnd ==
    Extracted =>
        /\ \A k \in 1..Len(Records) :
              parseISO(Records[k].end_date) =
                  calculateEndDate(Str(Records[k].start_date),
                                   Records[k].duration_days, "mon-fri")
        /\ (~xResult.null /\ \E k \in 1..Len(xLines) : xLines[k] = "framing") =>
              \E k \in 1..Len(Records) :
                  /\ Records[k].name = Framing
                  /\ Records[k].duration_days = 10
                  /\ countWorkdays(Str(Records[k].start_date),
                                   Str(Records[k].end_date), "mon-fri") = 9

\* the text made of the same pieces with one piece replaced by another
Replacing(names, old, new) ==
    [k \in 1..Len(names) |-> IF names[k] = old THEN new ELSE names[k]]

\* the text made of the same pieces without one of them
Without(names, name) == SelectSeq(names, LAMBDA n : n # name)

Holds(name) == \E k \in 1..Len(xLines) : xLines[k] = name

\* C12: two texts that differ only in the letter case of a month name give
\* the same records: the text with 'JAN' gives what the text with 'Jan' gives.
C12_MonthCaseInsensitive ==
    (Extracted /\ Holds("tileUpper")) =>
        xResult = tryRegexExtract(TextOf(Replacing(xLines, "tileUpper", "tile")), xEnv)

\* the lines of the normalized text, and those the line pattern matches
LinesOf(text) == split(normalizeExtractedText(text))

MatchingLines(lines) == {i \in 1..Len(lines) : linePattern(lines[i]).ok}

\* C13: the result is null or an array of at least 3 records; it is null
\* when fewer than 3 lines match the line pattern and when fewer than 3
\* records are left after the duplicate, header and date rejections.
C13_ConfidenceGate ==
    Extracted =>
        LET remaining == extractedTasks(xRaw, xEnv)
        IN  /\ xResult.null \/ Len(xResult.tasks) >= 3
            /\ Cardinality(MatchingLines(LinesOf(xRaw))) < 3 => xResult.null
            /\ Len(remaining) < 3 => xResult.null
            /\ ~xResult.null => xResult.tasks = remaining

\* three lines or more match, one or two records are left: null is returned
C13_Witness ==
    /\ Extracted
    /\ xResult.null
    /\ Cardinality(MatchingLines(LinesOf(xRaw))) >= 3
    /\ Len(extractedTasks(xRaw, xEnv)) \in {1, 2}

\* for every line the pattern matches its (name, raw date text) pair, in a
\* one-element sequence; the empty sequence for the other lines
PairsOf(lines) ==
    [i \in 1..Len(lines) |->
        LET m == linePattern(lines[i])
        IN  IF m.ok
            THEN << <<CollapseWhiteSpace(trim(SubSeq(lines[i], 1, m.nameEnd)), 1, <<>>),
                      SubSeq(lines[i], m.dateStart, m.dateEnd)>> >>
            ELSE <<>>]

\* a matched line whose pair an earlier line of the text has
RepeatsPair(pairs, i) ==
    pairs[i] # <<>> /\ \E j \in 1..(i - 1) : pairs[j] = pairs[i]

\* the lines without those that repeat the pair of an earlier line
FirstOfEachPair(lines, pairs) ==
    Flatten([i \in 1..Len(lines) |->
                IF RepeatsPair(pairs, i) THEN <<>> ELSE <<lines[i]>>])

\* C14: at most one record per (name, raw date text) pair, the one of the
\* first line with the pair: the result is what the text gives once every
\* line repeating an earlier line's pair is removed, and it has no more
\* records than there are pairs.
C14_FirstOfEachPair ==
    Extracted =>
        LET lines == LinesOf(xRaw)
            pairs == PairsOf(lines)
            firsts == FirstOfEachPair(lines, pairs)
        IN  /\ xResult = confidenceGate(
                    forLines(firsts, 1, [tasks |-> <<>>, seen |-> {}], xEnv).tasks)
            /\ Len(Records) <=
                  Cardinality({pairs[i] : i \in 1..Len(lines)} \ {<<>>})

\* an array is returned for a text in which a line repeats an earlier pair
\* with another duration
C14_Witness ==
    /\ Extracted
    /\ ~xResult.null
    /\ Holds("tile") /\ Holds("tileAgain")
    /\ LET pairs == PairsOf(LinesOf(xRaw))
       IN  \E i \in 1..Len(pairs) : RepeatsPair(pairs, i)

\* C15: a line whose date is not a calendar date (February 31st) is dropped
\* and the other lines are extracted as if it were absent.
C15_BadDateDropped ==
    (Extracted /\ Holds("roof")) => xResult = tryRegexExtract(TextOf(Without(xLines, "roof")), xEnv)

\* C16: no record is named Title, Start or Workdays in any letter case, and
\* a header row does not count for the gate: the result is what the text
\* without the header row gives.
C16_HeaderRowsSkipped ==
    Extracted =>
        /\ \A k \in 1..Len(Records) : LowerCaseOf(Records[k].name) \notin HeaderNames
        /\ Holds("title") =>
              xResult = tryRegexExtract(TextOf(Without(xLines, "title")), xEnv)

\* a header row and two task rows: three lines match, null is returned
C16_Witness ==
    /\ Extracted
    /\ Holds("title")
    /\ xResult.null
    /\ Cardinality(MatchingLines(LinesOf(xRaw))) = 3
    /\ Len(extractedTasks(TextOf(Without(xLines, "title")), xEnv)) = 2

\* C17: every form feed becomes a line break: normalizing a text gives what
\* normalizing it gives with each form feed written as a newline.
C17_FormFeedIsLineBreak ==
    xOp = "normalizeExtractedText" =>
        xText = normalizeExtractedText(
                    [i \in 1..Len(xRaw) |-> IF xRaw[i] = "\f" THEN "\n" ELSE xRaw[i]])

Deck == <<"D", "e", "c", "k">>

\* C18: a task line whose 'day' stands on the next line is extracted as the
\* unsplit line is.
C18_SplitDaysRejoined ==
    (Extracted /\ Holds("deckSplit")) =>
        xResult = tryRegexExtract(TextOf(Replacing(xLines, "deckSplit", "deck")), xEnv)

\* an array holding the record of the split line
C18_Witness ==
    /\ Extracted
    /\ Holds("deckSplit") /\ ~Holds("deck")
    /\ \E k \in 1..Len(Records) :
          Records[k].name = Deck /\ Records[k].duration_days = 1

\* C30: no two records of the result have the same name and the same
\* start_date, however the lines spell the date.
C30_OneRecordPerNameAndDate ==
    Extracted =>
        \A i, j \in 1..Len(Records) :
            (Records[i].name = Records[j].name
                /\ Records[i].start_date = Records[j].start_date) => i = j

-----------------------------------------------------------------------------
(* Properties of the text reconstruction *)

\* C19: with c and s the numbers of task lines of the clustered and the
\* sequential text, the text with strictly more task lines is returned; when
\* neither has any, the longer one; the result is one of the two texts.
C19_SelectionRule ==
    docOp = "extractTextFromPdfDocument" =>
        LET c == taskLineCount(docOut.clustered)
            s == taskLineCount(docOut.sequential)
        IN  /\ s > c => docOut.result = docOut.sequential
            /\ c > s => docOut.result = docOut.clustered
            /\ (c = 0 /\ s = 0) =>
                  /\ Len(docOut.result) >= Len(docOut.clustered)
                  /\ Len(docOut.result) >= Len(docOut.sequential)
            /\ docOut.result \in {docOut.clustered, docOut.sequential}

\* the sequential text has more task lines than the clustered one, which
\* has some, and is returned
C19_Witness ==
    /\ docOp = "extractTextFromPdfDocument"
    /\ taskLineCount(docOut.clustered) >= 1
    /\ taskLineCount(docOut.sequential) > taskLineCount(docOut.clustered)
    /\ docOut.result = docOut.sequential
    /\ docOut.result # docOut.clustered

Clustered == pgOp = "extractYClustered"

\* the items of the page that are not blank; the text of each is its own
NonBlank == {k \in 1..Len(pgItems) : ~isBlank(pgItems[k].str)}

\* two fragments stand on the same line of the returned text
SameLine(a, b) ==
    LET lines == split(pgText)
    IN  \E i \in 1..Len(lines) :
            /\ \E j \in 1..Len(lines[i]) : <<lines[i][j]>> = pgItems[a].str
            /\ \E j \in 1..Len(lines[i]) : <<lines[i][j]>> = pgItems[b].str

\* no fragment of its line stands higher on the page
IsTopOfLine(a) ==
    \A b \in NonBlank : SameLine(a, b) => pgItems[b].y <= pgItems[a].y

\* C20 as stated: any two non-blank fragments whose y differ by at most 3
\* stand on the same line of the clustered text.
C20_WithinToleranceSameLine ==
    Clustered =>
        \A a, b \in NonBlank :
            Abs(pgItems[a].y - pgItems[b].y) <= 3 => SameLine(a, b)

\* C20: a row reaches 3 units down from its topmost fragment: a non-blank
\* fragment at most 3 below the topmost fragment of a line stands on that
\* line, and every fragment of the line is at most 3 below it.
C20_WithinToleranceOfTop ==
    Clustered =>
        \A a, b \in NonBlank :
            IsTopOfLine(a) =>
                /\ (pgItems[b].y <= pgItems[a].y /\ pgItems[a].y - pgItems[b].y <= 3)
                      => SameLine(a, b)
                /\ SameLine(a, b) => pgItems[a].y - pgItems[b].y <= 3

\* a fragment exactly 3 below the top of its line, and a third one within 3
\* of it on another line
C20_Witness ==
    /\ Clustered
    /\ \E a, b, c \in NonBlank :
          /\ IsTopOfLine(a)
          /\ pgItems[a].y - pgItems[b].y = 3
          /\ SameLine(a, b)
          /\ Abs(pgItems[b].y - pgItems[c].y) <= 3
          /\ ~SameLine(b, c)

\* the line of the returned text and the column of that line where the text
\* of fragment a stands
Places(a) ==
    LET lines == split(pgText)
    IN  UNION {{<<i, j>> : j \in {c \in 1..Len(lines[i]) : <<lines[i][c]>> = pgItems[a].str}} :
                 i \in 1..Len(lines)}

Place(a) == CHOOSE p \in Places(a) : TRUE

\* every line of the text is fragments of the page joined by single spaces
SingleSpaced ==
    LET lines == split(pgText)
    IN  \A i \in 1..Len(lines) :
            /\ (Len(lines[i]) = 0) => NonBlank = {}
            /\ (Len(lines[i]) > 0) => Len(lines[i]) % 2 = 1
            /\ \A j \in 1..Len(lines[i]) :
                  IF j % 2 = 1
                  THEN \E a \in NonBlank : <<lines[i][j]>> = pgItems[a].str
                  ELSE lines[i][j] = " "

\* C21: in the clustered text every non-blank fragment stands at exactly one
\* place, every line is fragments joined by single spaces, a fragment of an
\* earlier line is strictly higher on the page than a fragment of a later
\* line, and within a line the horizontal coordinate never decreases from
\* left to right, whatever the emission order.
C21_ClusteredOrder ==
    Clustered =>
        /\ \A a \in NonBlank : Cardinality(Places(a)) = 1
        /\ SingleSpaced
        /\ \A a, b \in NonBlank :
              /\ Place(a)[1] < Place(b)[1] => pgItems[a].y > pgItems[b].y
              /\ (Place(a)[1] = Place(b)[1] /\ Place(a)[2] < Place(b)[2])
                    => pgItems[a].x <= pgItems[b].x

\* three fragments emitted bottom row first and, in the top row, right to
\* left: the text has the top row first, its fragments left to right
C21_Witness ==
    /\ Clustered
    /\ NonBlank = {1, 2, 3}
    /\ pgItems[1].y < pgItems[2].y - TOLERANCE
    /\ pgItems[2].y = pgItems[3].y
    /\ pgItems[2].x > pgItems[3].x
    /\ pgText = pgItems[3].str \o <<" ">> \o pgItems[2].str \o <<"\n">> \o pgItems[1].str

Sequential == pgOp = "extractSequential"

\* b is the first non-blank fragment emitted after the non-blank fragment a
Consecutive(a, b) == a < b /\ \A c \in NonBlank : ~(a < c /\ c < b)

\* where the text of fragment a stands in the returned text
PosOf(a) == CHOOSE j \in 1..Len(pgText) : <<pgText[j]>> = pgItems[a].str

\* what the returned text has between the fragments a and b
Between(a, b) == SubSeq(pgText, PosOf(a) + 1, PosOf(b) - 1)

IsLineBreak(t) == t # <<>> /\ \A j \in 1..Len(t) : t[j] = "\n"

\* every non-blank fragment stands exactly once in the text, and the text
\* has them in emission order
InEmissionOrder ==
    /\ \A a \in NonBlank :
          Cardinality({j \in 1..Len(pgText) : <<pgText[j]>> = pgItems[a].str}) = 1
    /\ \A a, b \in NonBlank : a < b => PosOf(a) < PosOf(b)

\* C22 as stated: between two non-blank fragments a then b with no other
\* non-blank fragment emitted between them, the sequential text has a line
\* break iff |b.y - a.y| > 5 or a is flagged hasEOL, and a single space
\* otherwise.
C22_BreakIffGapOrEOL ==
    Sequential =>
        /\ InEmissionOrder
        /\ \A a, b \in NonBlank :
              Consecutive(a, b) =>
                  IF Abs(pgItems[b].y - pgItems[a].y) > 5 \/ pgItems[a].hasEOL
                  THEN IsLineBreak(Between(a, b))
                  ELSE Between(a, b) = <<" ">>

\* C22: the line break comes from any item from a up to b, blank ones
\* included: one flagged hasEOL before b, or one whose y is more than 5 away
\* from the y of the item emitted just before it.
C22_BreakIffAnyItemBreaks ==
    Sequential =>
        /\ InEmissionOrder
        /\ \A a, b \in NonBlank :
              Consecutive(a, b) =>
                  IF \E k \in a..(b - 1) :
                         \/ pgItems[k].hasEOL
                         \/ Abs(pgItems[k + 1].y - pgItems[k].y) > 5
                  THEN IsLineBreak(Between(a, b))
                  ELSE Between(a, b) = <<" ">>

\* a blank item flagged hasEOL between two fragments of the same height
\* that are not flagged: the text has a line break between them
C22_Witness ==
    /\ Sequential
    /\ NonBlank = {1, 3}
    /\ Len(pgItems) = 3
    /\ pgItems[1].y = pgItems[3].y
    /\ pgItems[2].y = pgItems[1].y
    /\ ~pgItems[1].hasEOL
    /\ pgItems[2].hasEOL
    /\ pgText = pgItems[1].str \o <<"\n">> \o pgItems[3].str

\* C23: the text extractTextFromPdfDocument returns is at most maxChars
\* characters long.
C23_WithinBudget ==
    docOp = "extractTextFromPdfDocument" => Len(docOut.result) <= docMaxChars

\* the two texts extractTextFromPdfDocument chooses between
Candidates == {docOut.clustered, docOut.sequential}

\* C24: the heuristic's taskPattern matches a line of a candidate text iff
\* the extractor's linePattern matches it, and the extractor's pattern
\* matches at least as many lines of the returned text as of the other one.
C24_SamePattern ==
    docOp = "extractTextFromPdfDocument" =>
        /\ \A text \in Candidates :
              \A i \in 1..Len(split(text)) :
                  taskPattern(split(text)[i]) <=> linePattern(split(text)[i]).ok
        /\ \A text \in Candidates :
              Cardinality(MatchingLines(split(docOut.result)))
                  >= Cardinality(MatchingLines(split(text)))

-----------------------------------------------------------------------------
(* The PDF schedule import: a file is chosen in Init; the client handler,   *)
(* the route, the AI parser and the client's handling of the response are   *)
(* the steps.  The server runs Node (V8) in any time zone.                  *)

InitImport ==
    /\ imIn \in [client : DOMAIN ImportTexts,
                 server : DOMAIN ImportTexts \cup {"fails"},
                 cEnv : Envs,
                 sEnv : {e \in Envs : e.lenient},
                 size : FileSizes,
                 gemini : GeminiOutcomes]
    /\ imPc = "chosen"
    /\ imReq = NoRequest
    /\ imGemini = NoGemini
    /\ imResp = NoResponse
    /\ imShown = NothingShown
    /\ CalIdle
    /\ RecIdle
    /\ ExtIdle
    /\ PgIdle
    /\ DocIdle
    /\ EdIdle
    /\ SaveIdle

\* handleScheduleFile for a PDF, up to its return or its fetch
HandleScheduleFile ==
    /\ imPc = "chosen"
    /\ \E regexTasks \in {clientRegex(ImportText(imIn.client), imIn.cEnv)} :
          IF ~regexTasks.null /\ Len(regexTasks.tasks) > 0
          THEN /\ imShown' = [kind |-> "tasks", tasks |-> regexTasks.tasks]
               /\ imPc' = "done"
               /\ UNCHANGED imReq
          ELSE /\ imReq' = formDataOf(ImportText(imIn.client), imIn.size)
               /\ imPc' = "requested"
               /\ UNCHANGED imShown
    /\ UNCHANGED <<imIn, imGemini, imResp>>
    /\ UNCHANGED <<calVars, recVars, extVars, pgVars, docVars, edVars, saveVars>>

\* POST /api/schedule/[id]/parse-import, up to its response or its call of
\* parseSchedulePDFWithGemini
ParseImportPOST ==
    /\ imPc = "requested"
    /\ \E out \in {parseImport(imReq,
                               IF imIn.server = "fails"
                               THEN [failed |-> TRUE, text |-> <<>>]
                               ELSE [failed |-> FALSE, text |-> ImportText(imIn.server)],
                               imIn.sEnv)} :
          /\ imGemini' = out.gemini
          /\ imResp' = out.resp
          /\ imPc' = IF out.gemini.called THEN "gemini" ELSE "responded"
    /\ UNCHANGED <<imIn, imReq, imShown>>
    /\ UNCHANGED <<calVars, recVars, extVars, pgVars, docVars, edVars, saveVars>>

\* the race of parseSchedulePDFWithGemini and the timer ends
GeminiReturns ==
    /\ imPc = "gemini"
    /\ imResp' = geminiResponse(imIn.gemini)
    /\ imPc' = "responded"
    /\ UNCHANGED <<imIn, imReq, imGemini, imShown>>
    /\ UNCHANGED <<calVars, recVars, extVars, pgVars, docVars, edVars, saveVars>>

\* handleScheduleFile after the fetch
HandleResponse ==
    /\ imPc = "responded"
    /\ imShown' = shownFor(imResp)
    /\ imPc' = "done"
    /\ UNCHANGED <<imIn, imReq, imGemini, imResp>>
    /\ UNCHANGED <<calVars, recVars, extVars, pgVars, docVars, edVars, saveVars>>

NextImport ==
    \/ HandleScheduleFile
    \/ ParseImportPOST
    \/ GeminiReturns
    \/ HandleResponse

SpecImport == InitImport /\ [][NextImport]_vars

-----------------------------------------------------------------------------
(* Properties of the PDF schedule import *)

\* the route got as far as its regex step
ReachedRegex ==
    /\ imReq.sent /\ imReq.pdf /\ imReq.size # "large"
    /\ imPc \in {"gemini", "responded", "done"}

\* the texts the route has: the client text of the request and, when it ran
\* unpdf and unpdf did not fail, the server text
AvailableTexts ==
    {imReq.text} \cup
    (IF Len(trim(imReq.text)) < 200 /\ imIn.server # "fails"
     THEN {ImportText(imIn.server)} ELSE {})

\* C25: the AI parser is called only in a request, after tryRegexExtract
\* returned null in the browser and null in the route for every text the
\* route has; when it returns tasks in the route for one of these texts the
\* response carries regex tasks and the AI parser is not called; when it
\* returns tasks in the browser no request is sent and these tasks are shown.
C25_RegexBeforeAI ==
    /\ imGemini.called =>
          /\ imReq.sent
          /\ tryRegexExtract(ImportText(imIn.client), imIn.cEnv) = Null
          /\ \A text \in AvailableTexts : tryRegexExtract(text, imIn.sEnv) = Null
    /\ (ReachedRegex /\ \E text \in AvailableTexts : tryRegexExtract(text, imIn.sEnv) # Null) =>
          /\ ~imGemini.called
          /\ imResp.status = 200
          /\ \E text \in AvailableTexts :
                /\ tryRegexExtract(text, imIn.sEnv) # Null
                /\ imResp.tasks = tryRegexExtract(text, imIn.sEnv).tasks
    /\ (imPc # "chosen" /\ tryRegexExtract(ImportText(imIn.client), imIn.cEnv) # Null) =>
          /\ ~imReq.sent
          /\ ~imGemini.called
          /\ imPc = "done"
          /\ imShown = [kind |-> "tasks",
                        tasks |-> tryRegexExtract(ImportText(imIn.client), imIn.cEnv).tasks]

\* the AI parser was called on the longer of two different texts, each long
\* enough for the regex, and its tasks are shown
C25_Witness ==
    /\ imPc = "done"
    /\ imIn.client = "dull"
    /\ imIn.server = "longDull"
    /\ imGemini = [called |-> TRUE, text |-> ImportText("longDull")]
    /\ imShown = [kind |-> "tasks", tasks |-> GeminiTasks]

-----------------------------------------------------------------------------
(* The task editor: a schedule is open, the user adds, deletes and drags    *)
(* tasks.  Every action is one handler call on the current task list.      *)

MaxEdits == 3
MaxEditorTasks == 4

\* the depends_on arrays a task at 1-based place i may hold: ids of earlier tasks
EarlierIds(i) ==
    { SelectSeq(SubSeq(EditorIds, 1, i - 1), LAMBDA id : id \in chosen) :
        chosen \in SUBSET { EditorIds[j] : j \in 1..(i - 1) } }

\* the task lists the server hands to the editor: ordered, dependencies earlier
OpenedTaskLists ==
    UNION { { [i \in 1..n |-> [id |-> EditorIds[i],
                               depends_on |-> deps[i],
                               sequence_index |-> i - 1]] :
                deps \in { f \in [1..n -> UNION { EarlierIds(i) : i \in 1..n }] :
                             \A i \in 1..n : f[i] \in EarlierIds(i) } } :
            n \in 0..3 }

InitEdit ==
    /\ edTasks \in OpenedTaskLists
    /\ edOp = "none"
    /\ edCount = 0
    /\ CalIdle
    /\ RecIdle
    /\ ExtIdle
    /\ PgIdle
    /\ DocIdle
    /\ ImpIdle
    /\ SaveIdle

AddTask ==
    /\ edCount < MaxEdits
    /\ Len(edTasks) < MaxEditorTasks
    /\ \E afterIndex \in {<<>>} \cup { <<i>> : i \in 0..(Len(edTasks) - 1) } :
          edTasks' = handleAddTask(edTasks, afterIndex)
    /\ edOp' = "handleAddTask"
    /\ edCount' = edCount + 1
    /\ UNCHANGED <<calVars, recVars, extVars, pgVars, docVars, impVars, saveVars>>

DeleteTask ==
    /\ edCount < MaxEdits
    /\ \E i \in 1..Len(edTasks) :
          edTasks' = handleDeleteTask(edTasks, edTasks[i].id)
    /\ edOp' = "handleDeleteTask"
    /\ edCount' = edCount + 1
    /\ UNCHANGED <<calVars, recVars, extVars, pgVars, docVars, impVars, saveVars>>

\* handleDragEnd of ScheduleTable: a drop on another row calls reorderTasks
ReorderTasks ==
    /\ edCount < MaxEdits
    /\ \E sourceIndex \in 0..(Len(edTasks) - 1), destIndex \in 0..(Len(edTasks) - 1) :
          /\ sourceIndex # destIndex
          /\ edTasks' = reorderTasks(edTasks, sourceIndex, destIndex)
    /\ edOp' = "reorderTasks"
    /\ edCount' = edCount + 1
    /\ UNCHANGED <<calVars, recVars, extVars, pgVars, docVars, impVars, saveVars>>

NextEdit ==
    \/ AddTask
    \/ DeleteTask
    \/ ReorderTasks

SpecEdit == InitEdit /\ [][NextEdit]_vars

\* every task carries its 0-based place as sequence_index
Reissued == \A i \in 1..Len(edTasks) : edTasks[i].sequence_index = i - 1

\* every depends_on id belongs to an existing task with a smaller sequence_index
DependenciesEarlier ==
    \A i \in 1..Len(edTasks) :
        \A k \in 1..Len(edTasks[i].depends_on) :
            \E j \in 1..Len(edTasks) :
                /\ edTasks[j].id = edTasks[i].depends_on[k]
                /\ edTasks[j].sequence_index < edTasks[i].sequence_index

\* C26: after any sequence of add-task, delete-task and drag-reorder calls
\* every depends_on id of every task belongs to an existing task with a
\* strictly smaller sequence_index, and the indexes are 0..n-1.
C26_SequencingInvariant == Reissued /\ DependenciesEarlier

-----------------------------------------------------------------------------
(* Autosave: a project is open; the user edits, the debounce timer fires,   *)
(* the server handles PATCH requests and the responses come back, in any   *)
(* order the network delivers them.                                        *)

MaxUpdates == 3

InitSave ==
    /\ SaveIdle
    /\ CalIdle
    /\ RecIdle
    /\ ExtIdle
    /\ PgIdle
    /\ DocIdle
    /\ ImpIdle
    /\ EdIdle

\* updateTasks(tasks, immediate)
UpdateTasks ==
    /\ lastEdit < MaxUpdates
    /\ \E immediate \in BOOLEAN :
          autosaveTimeoutRef' = <<saveDelay(immediate)>>
    /\ stateTasks' = editedTasks(lastEdit + 1)
    /\ pendingTasksRef' = <<editedTasks(lastEdit + 1)>>
    /\ lastEdit' = lastEdit + 1
    /\ UNCHANGED <<stateStatus, requests, responses, patched, dbTasks>>
    /\ UNCHANGED <<calVars, recVars, extVars, pgVars, docVars, impVars, edVars>>

\* the timer callback up to its await: nothing to do, or the PATCH is sent
TimerFires ==
    /\ autosaveTimeoutRef # <<>>
    /\ autosaveTimeoutRef' = <<>>
    /\ IF pendingTasksRef = <<>>
       THEN UNCHANGED <<stateStatus, requests, patched>>
       ELSE /\ stateStatus' = "saving"
            /\ requests' = requests \cup
                  {[n |-> Len(patched) + 1, body |-> patchBody(pendingTasksRef[1])]}
            /\ patched' = Append(patched, patchBody(pendingTasksRef[1]))
    /\ UNCHANGED <<stateTasks, pendingTasksRef, responses, dbTasks, lastEdit>>
    /\ UNCHANGED <<calVars, recVars, extVars, pgVars, docVars, impVars, edVars>>

\* PATCH /api/schedule/[id]/tasks: stores the tasks and answers with them,
\* or fails and answers with an error
PatchHandled ==
    /\ \E req \in requests :
          /\ requests' = requests \ {req}
          /\ \E ok \in BOOLEAN :
                IF ok
                THEN /\ dbTasks' = patchFinalTasks(req.body)
                     /\ responses' = responses \cup
                           {[n |-> req.n, ok |-> TRUE, tasks |-> patchFinalTasks(req.body)]}
                ELSE /\ dbTasks' = dbTasks
                     /\ responses' = responses \cup
                           {[n |-> req.n, ok |-> FALSE, tasks |-> dbTasks]}
    /\ UNCHANGED <<stateTasks, stateStatus, pendingTasksRef, autosaveTimeoutRef,
                   patched, lastEdit>>
    /\ UNCHANGED <<calVars, recVars, extVars, pgVars, docVars, impVars, edVars>>

\* the timer callback after its await: the response, or the thrown error
PatchReturns ==
    /\ \E data \in responses :
          /\ responses' = responses \ {data}
          /\ IF data.ok
             THEN /\ stateTasks' = data.tasks
                  /\ stateStatus' = "idle"
                  /\ pendingTasksRef' = <<>>
             ELSE /\ stateStatus' = "error"
                  /\ UNCHANGED <<stateTasks, pendingTasksRef>>
    /\ UNCHANGED <<autosaveTimeoutRef, requests, patched, dbTasks, lastEdit>>
    /\ UNCHANGED <<calVars, recVars, extVars, pgVars, docVars, impVars, edVars>>

NextSave ==
    \/ UpdateTasks
    \/ TimerFires
    \/ PatchHandled
    \/ PatchReturns

SpecSave == InitSave /\ [][NextSave]_vars

\* no timer is armed and no request or response is under way
Quiescent ==
    /\ autosaveTimeoutRef = <<>>
    /\ requests = {}
    /\ responses = {}

\* the last list given to updateTasks went out in a PATCH with recalculate
LastEditSent ==
    \E i \in 1..Len(patched) :
        /\ patched[i].tasks = editedTasks(lastEdit)
        /\ patched[i].recalculate

\* C27: the last task list passed to updateTasks is what local state shows
\* (no response of an earlier save overwrites it), and once every timer has
\* fired and every request was answered it has been sent in a PATCH with
\* recalculate = true.
C27_NoEditLost ==
    lastEdit > 0 =>
        /\ stateTasks.edit = lastEdit
        /\ Quiescent => LastEditSent

=============================================================================
